---------------------------- MODULE Spec2Model ----------------------------
(***************************************************************************)
(* Schema comparison service (src/compare.py, src/app.py).                 *)
(*                                                                         *)
(* Strings are TLA+ strings handled character by character (SubSeq, Len,   *)
(* \o), so that lower(), strip(), split(), substring tests and sorting are *)
(* computed the way Python computes them.                                  *)
(*                                                                         *)
(* A DataFrame is [columns |-> <<labels>>, rows |-> <<value tuples>>].     *)
(***************************************************************************)
EXTENDS Integers, Sequences, FiniteSets, TLC

VARIABLES
    source_file,            \* the uploaded SOURCE table (raw DataFrame)
    target_file,            \* the uploaded TARGET table (raw DataFrame)
    compare_result,         \* outcome of the last compare_schemas call
    latest_comparison_df,   \* app.py global: None or the last diff
    latest_fix_options,     \* app.py global: None or the last FixOptions
    build_call,             \* last call of build_schema_changes_from_df:
                            \* its arguments and the list it returned
    response,               \* last answer of GET /sql-preview
    completed,              \* history: the requests /compare and
                            \* /confirm-fix-options answered 200 so far
    sessions,               \* per logged-in user of the two-user runs: the
                            \* files held, the outcome of the user's own
                            \* last requests and the last preview answer
    render_call,            \* a call of generate_mssql_sql on its own: the
                            \* descriptor list and the script returned
    mapper_call,            \* a call of normalize_mssql_datatype on its own:
                            \* the arguments and the type returned
    normalize_call,         \* a call of normalize_columns on its own: the
                            \* caller's frame as given and as it is now,
                            \* and the frame returned
    now,                    \* datetime.utcnow(), in ticks
    password_reset_attempts,\* app.py global: email -> times of the attempts
    reset_tokens,           \* table password_reset_tokens, in order of id
    hashed_password,        \* column users.hashed_password, by user id
    reset_requests,         \* the /reset-password requests: where each is
                            \* in the handler, what it holds, its answer
    rate_log,               \* history: the calls of check_rate_limit, with
                            \* their time and what they returned
    reset_log               \* history: the /reset-password requests that
                            \* were answered 200, with their token

\* The variables of the password reset routes.
auth == <<now, password_reset_attempts, reset_tokens, hashed_password, reset_requests,
          rate_log, reset_log>>

\* The variables the password reset routes leave alone.
comparison == <<source_file, target_file, compare_result, latest_comparison_df,
                latest_fix_options, build_call, response, completed, sessions, render_call,
                mapper_call, normalize_call>>

\* The variables of the calls examined on their own, and those of the
\* password reset routes.
calls == <<render_call, mapper_call, normalize_call, auth>>

\* The variables the requests of the two-user runs and the calls examined
\* on their own leave alone.
others == <<completed, calls>>

vars == <<source_file, target_file, compare_result, latest_comparison_df,
          latest_fix_options, build_call, response, sessions, others>>

\* ------------------------------------------------------------------------
\* Python values
\* ------------------------------------------------------------------------

\* Optional values: None is the empty tuple, a present value v is <<v>>.
None == <<>>

Some(v) == <<v>>

\* Python's None where it lands in a cell that otherwise holds a string.
PyNone == "<None>"

\* ------------------------------------------------------------------------
\* The contents of the uploaded files
\* ------------------------------------------------------------------------

\* The elements of a list, as a set.
Range(seq) == {seq[i] : i \in 1..Len(seq)}

\* Two header lines: the canonical labels, and aliases in another spelling.
FullHeader ==
    <<"table_name", "column_name", "data_type", "max_length", "is_nullable",
      "precision", "scale", "default_value">>

AliasHeader == <<" Table Name", "Column">>

\* The records a file with the full header may hold.
FullRows ==
    { <<"users", "Email", "VARCHAR", "100", "YES", "", "", "">>,
      <<"users", "email", "VARCHAR", "150", "YES", "", "", "">>,
      <<"users", "id", "INT", "", "NO", "10", "0", "0">>,
      <<"users", "id", "int ", "nan", "no", "10", "0", "1">>,
      <<"users", "id", "BIGINT", "8", "YES", "19", "2", "0">>,
      <<"users", "id", "BIGINT", "8", "NO", "19", "2", "0">>,
      <<"orders", "id", "INT", "None", "NO", "10", "0", "0">> }

\* The records a file with the alias header may hold; the last one has a
\* blank column name.
AliasRows == { <<"users", "Email">>, <<"users", "id">>, <<"orders", "id">>, <<"users", " ">> }

\* A header without a column name, with a label that is no alias, and
\* the records of such a file.
TableOnlyHeader == <<"tablename", "Remarks">>

TableOnlyRows == { <<"users", "x">> }

\* A header without a table name, and the records of such a file.
ColumnOnlyHeader == <<"Column">>

ColumnOnlyRows == { <<"id">> }

\* Every string of the uploaded files.
Vocabulary ==
    Range(FullHeader) \cup Range(AliasHeader)
        \cup Range(TableOnlyHeader) \cup Range(ColumnOnlyHeader)
        \cup UNION { Range(r) : r \in FullRows } \cup UNION { Range(r) : r \in AliasRows }
        \cup UNION { Range(r) : r \in TableOnlyRows }
        \cup UNION { Range(r) : r \in ColumnOnlyRows }

\* ------------------------------------------------------------------------
\* str methods
\* ------------------------------------------------------------------------

UpperAlphabet == "ABCDEFGHIJKLMNOPQRSTUVWXYZ"

LowerAlphabet == "abcdefghijklmnopqrstuvwxyz"

\* The characters used, in code point order (what Python's str < compares).
CodePoints == " '(),-.0123456789:;<>ABCDEFGHIJKLMNOPQRSTUVWXYZ_abcdefghijklmnopqrstuvwxyz"

CharAt(s, i) == SubSeq(s, i, i)

\* Python's `sub in s`
Contains(sub, s) ==
    \E i \in 1..(Len(s) - Len(sub) + 1) : SubSeq(s, i, i + Len(sub) - 1) = sub

\* Position of the first occurrence of sub in s, 0 when there is none.
IndexIn(sub, s) ==
    LET At(i) == SubSeq(s, i, i + Len(sub) - 1) = sub
        starts == 1..(Len(s) - Len(sub) + 1)
    IN  IF \E i \in starts : At(i)
        THEN CHOOSE i \in starts : At(i) /\ \A j \in 1..(i - 1) : ~At(j)
        ELSE 0

\* The characters of a string, as a set.
CharsOf(s) == {CharAt(s, i) : i \in 1..Len(s)}

\* Upper-case letter -> lower-case letter.
LowerTable ==
    [c \in CharsOf(UpperAlphabet) |-> CharAt(LowerAlphabet, IndexIn(c, UpperAlphabet))]

\* Lower-case letter -> upper-case letter.
UpperTable ==
    [c \in CharsOf(LowerAlphabet) |-> CharAt(UpperAlphabet, IndexIn(c, LowerAlphabet))]

\* Character -> its rank in code point order.
OrdTable == [c \in CharsOf(CodePoints) |-> IndexIn(c, CodePoints)]

LowerChar(c) == IF c \in DOMAIN LowerTable THEN LowerTable[c] ELSE c

UpperChar(c) == IF c \in DOMAIN UpperTable THEN UpperTable[c] ELSE c

RECURSIVE MapChars(_, _)
\* The string of F(c) for the characters c of s, in order.
MapChars(F(_), s) ==
    IF Len(s) = 0 THEN ""
    ELSE IF Len(s) = 1 THEN F(s)
    ELSE MapChars(F, SubSeq(s, 1, Len(s) \div 2))
         \o MapChars(F, SubSeq(s, Len(s) \div 2 + 1, Len(s)))

\* str.lower(), character by character
LowerOf(s) == MapChars(LowerChar, s)

\* str.upper()
upper(s) == MapChars(UpperChar, s)

RECURSIVE lstrip(_)
lstrip(s) ==
    IF s # "" /\ CharAt(s, 1) = " " THEN lstrip(SubSeq(s, 2, Len(s))) ELSE s

RECURSIVE rstrip(_)
rstrip(s) ==
    IF s # "" /\ CharAt(s, Len(s)) = " " THEN rstrip(SubSeq(s, 1, Len(s) - 1)) ELSE s

\* str.strip(), character by character
StripOf(s) == rstrip(lstrip(s))

\* The strings of the uploaded files, stripped or not.
Cached == Vocabulary \cup { StripOf(s) : s \in Vocabulary }

\* LowerOf and StripOf tabulated once for the strings of the uploaded files.
LowerCache == [s \in Cached |-> LowerOf(s)]

StripCache == [s \in Cached |-> StripOf(s)]

\* str.lower()
lower(s) == IF s \in DOMAIN LowerCache THEN LowerCache[s] ELSE LowerOf(s)

\* str.strip()
strip(s) == IF s \in DOMAIN StripCache THEN StripCache[s] ELSE StripOf(s)

RECURSIVE replace(_, _, _)
\* str.replace(old, new), old non-empty
replace(s, old, new) ==
    LET i == IndexIn(old, s)
    IN  IF i = 0 THEN s
        ELSE SubSeq(s, 1, i - 1) \o new
             \o replace(SubSeq(s, i + Len(old), Len(s)), old, new)

RECURSIVE split(_, _)
\* str.split(sep), sep non-empty
split(s, sep) ==
    LET i == IndexIn(sep, s)
    IN  IF i = 0 THEN <<s>>
        ELSE <<SubSeq(s, 1, i - 1)>> \o split(SubSeq(s, i + Len(sep), Len(s)), sep)

RECURSIVE join(_, _)
\* sep.join(parts)
join(sep, parts) ==
    IF parts = <<>> THEN ""
    ELSE IF Len(parts) = 1 THEN parts[1]
    ELSE parts[1] \o sep \o join(sep, Tail(parts))

RECURSIVE LessOf(_, _)
\* Python's a < b on str, character by character: lexicographic by code point
LessOf(a, b) ==
    IF b = "" THEN FALSE
    ELSE IF a = "" THEN TRUE
    ELSE LET ca == OrdTable[CharAt(a, 1)]
             cb == OrdTable[CharAt(b, 1)]
         IN  IF ca # cb THEN ca < cb
             ELSE LessOf(SubSeq(a, 2, Len(a)), SubSeq(b, 2, Len(b)))

\* LessOf tabulated once for the strings that get sorted.
LessCache == [p \in (Cached \cup { LowerOf(s) : s \in Cached }) \X
                     (Cached \cup { LowerOf(s) : s \in Cached }) |-> LessOf(p[1], p[2])]

\* Python's a < b on str
StrLess(a, b) == IF <<a, b>> \in DOMAIN LessCache THEN LessCache[<<a, b>>] ELSE LessOf(a, b)

RECURSIVE sorted_Descending(_)
\* The elements of a set of str as a descending list.
sorted_Descending(S) ==
    IF S = {} THEN <<>>
    ELSE LET m == CHOOSE x \in S : \A y \in S \ {x} : StrLess(y, x)
         IN  <<m>> \o sorted_Descending(S \ {m})

RECURSIVE sorted(_)
\* sorted(set of str): ascending list
sorted(S) ==
    IF S = {} THEN <<>>
    ELSE LET m == CHOOSE x \in S : \A y \in S \ {x} : StrLess(x, y)
         IN  <<m>> \o sorted(S \ {m})

\* The list with the elements f[1], ..., f[n] of a function f on 1..n.
List(f) == f \o <<>>

\* The dict with the items of a function f.
Dict(f) == f @@ <<>>

RECURSIVE Concat(_)
\* Concatenation of a list of lists.
Concat(seqs) == IF seqs = <<>> THEN <<>> ELSE Head(seqs) \o Concat(Tail(seqs))

\* ------------------------------------------------------------------------
\* DataFrame access
\* ------------------------------------------------------------------------

HasColumn(df, col) == \E i \in 1..Len(df.columns) : df.columns[i] = col

\* Position of the column labelled col.
ColumnIndex(df, col) == CHOOSE i \in 1..Len(df.columns) : df.columns[i] = col

\* row[col] for a row of df
Cell(df, row, col) == row[ColumnIndex(df, col)]

\* df[col]: the values of one column, in row order
ColumnValues(df, col) == List([i \in 1..Len(df.rows) |-> Cell(df, df.rows[i], col)])

\* df[mask]: the rows satisfying Keep, in their order
SelectRows(df, Keep(_)) ==
    [columns |-> df.columns, rows |-> SelectSeq(df.rows, Keep)]

\* ------------------------------------------------------------------------
\* compare.py: column auto-mapping
\* ------------------------------------------------------------------------

COLUMN_ALIASES == <<
    [standard |-> "schema_name", aliases |-> {"schema_name", "table_schema", "schema"}],
    [standard |-> "table_name", aliases |-> {"table_name", "table name", "table", "tablename"}],
    [standard |-> "column_name", aliases |-> {"column_name", "column", "columnname", "column name"}],
    [standard |-> "data_type", aliases |-> {"data_type", "datatype", "data type", "type"}],
    [standard |-> "max_length",
     aliases |-> {"max_length", "length", "lenth", "char_length", "character_maximum_length"}],
    [standard |-> "is_nullable", aliases |-> {"is_nullable", "nullable", "is null", "nullability", "null"}],
    [standard |-> "precision", aliases |-> {"precision", "numeric_precision"}],
    [standard |-> "scale", aliases |-> {"scale", "numeric_scale"}],
    [standard |-> "default_value", aliases |-> {"default_value", "column_default", "default"}],
    [standard |-> "primary_key", aliases |-> {"primary_key", "is_primary_key", "pk"}],
    [standard |-> "identity", aliases |-> {"identity", "is_identity", "auto_increment"}] >>

REQUIRED_COLUMNS == <<"table_name", "column_name">>

\* rename_map[col] after the two loops of normalize_columns: the last
\* standard name whose alias list holds col; col itself when none does.
RenameTarget(col) ==
    LET hits == {i \in 1..Len(COLUMN_ALIASES) : col \in COLUMN_ALIASES[i].aliases}
    IN  IF hits = {} THEN col
        ELSE COLUMN_ALIASES[CHOOSE i \in hits : \A j \in hits : j <= i].standard

\* NormalizeLabel looking the label up as it is written.
NormalizeLabel_Verbatim(col) == RenameTarget(col)

\* The label normalize_columns gives a column labelled col.
NormalizeLabel(col) == RenameTarget(lower(strip(col)))

\* NormalizeLabel tabulated once for the labels of the uploaded files.
LabelCache == [col \in Cached |-> NormalizeLabel(col)]

\* normalize_columns(df): labels stripped, lower-cased, renamed by alias.
normalize_columns(df) ==
    [columns |-> List([i \in 1..Len(df.columns) |->
                          IF df.columns[i] \in DOMAIN LabelCache
                          THEN LabelCache[df.columns[i]]
                          ELSE NormalizeLabel(df.columns[i])]),
     rows |-> df.rows]

\* The set of key columns excluded from the comparison.
key_cols == {"table_name", "column_name", "schema_name"}

\* get_common_columns(source, target): sorted labels found on both sides,
\* key columns removed.
get_common_columns(source, target) ==
    sorted((Range(source.columns) \cap Range(target.columns)) \ key_cols)

\* df["schema_name"] = "default_schema" when the column is absent
AddDefaultSchema(df) ==
    IF HasColumn(df, "schema_name") THEN df
    ELSE [columns |-> Append(df.columns, "schema_name"),
          rows |-> List([i \in 1..Len(df.rows) |-> Append(df.rows[i], "default_schema")])]

\* df[col] = df[col].astype(str).str.strip() for every col of cols in df
StripColumns(df, cols) ==
    LET stripped == {j \in 1..Len(df.columns) : df.columns[j] \in Range(cols)}
    IN  [columns |-> df.columns,
         rows |-> List([i \in 1..Len(df.rows) |->
                     List([j \in 1..Len(df.columns) |->
                         IF j \in stripped THEN strip(df.rows[i][j]) ELSE df.rows[i][j]])])]

\* RequiredColumnError naming the other side than the one found lacking.
RequiredColumnError_SidesExchanged(source, target) ==
    LET Missing(col) ==
            IF ~HasColumn(source, col)
            THEN "TARGET file missing required column: " \o col
            ELSE IF ~HasColumn(target, col)
            THEN "SOURCE file missing required column: " \o col
            ELSE ""
    IN  IF Missing(REQUIRED_COLUMNS[1]) # "" THEN Missing(REQUIRED_COLUMNS[1])
        ELSE Missing(REQUIRED_COLUMNS[2])

\* The first required column that is missing, with the side it is missing
\* on, in the order the loop tests them; "" when none is missing.
RequiredColumnError(source, target) ==
    LET Missing(col) ==
            IF ~HasColumn(source, col)
            THEN "SOURCE file missing required column: " \o col
            ELSE IF ~HasColumn(target, col)
            THEN "TARGET file missing required column: " \o col
            ELSE ""
    IN  IF Missing(REQUIRED_COLUMNS[1]) # "" THEN Missing(REQUIRED_COLUMNS[1])
        ELSE Missing(REQUIRED_COLUMNS[2])

\* _row(...)
DiffRow(tbl, civ, cis, vdt, sdt, vlen, slen, comment) ==
    [table_name |-> tbl, column_in_source |-> civ, column_in_target |-> cis,
     source_datatype |-> vdt, target_datatype |-> sdt,
     source_length |-> vlen, target_length |-> slen, comment |-> comment]

\* "" if str(v).lower() in ["nan", "none"] else str(v)
EmptyIfNan(v) == IF lower(v) \in {"nan", "none"} THEN "" ELSE v

\* {c.lower(): c for c in tbl["column_name"]}: the last spelling wins
ColumnMap(tbl) ==
    LET names == ColumnValues(tbl, "column_name")
        keys == List([i \in 1..Len(names) |-> lower(names[i])])
    IN  Dict([lc \in Range(keys) |->
                names[CHOOSE i \in 1..Len(names) :
                        /\ keys[i] = lc
                        /\ \A j \in 1..Len(names) : keys[j] = lc => j <= i]])

\* dict.get(key): None when the key is absent
MapGet(m, k) == IF k \in DOMAIN m THEN m[k] ELSE PyNone

\* Python's truth value of an optional str
Truthy(v) == v # PyNone /\ v # ""

\* tbl[tbl["column_name"].str.lower() == lc].iloc[0]
FirstRowOf(tbl, lc) ==
    LET names == ColumnValues(tbl, "column_name")
        keys == List([i \in 1..Len(names) |-> lower(names[i])])
    IN  tbl.rows[CHOOSE i \in 1..Len(keys) :
                    /\ keys[i] = lc
                    /\ \A j \in 1..Len(keys) : keys[j] = lc => i <= j]

\* row.get(col, "") if col in tbl.columns else ""
ValueOrEmpty(tbl, row, col) == IF HasColumn(tbl, col) THEN Cell(tbl, row, col) ELSE ""

\* ------------------------------------------------------------------------
\* compare.py: compare_schemas
\* ------------------------------------------------------------------------

\* Differences with the data types compared as they are spelled.
Differences_CaseSensitive(source_tbl, target_tbl, source_row, target_row, compare_cols) ==
    LET source_dtype == EmptyIfNan(ValueOrEmpty(source_tbl, source_row, "data_type"))
        target_dtype == EmptyIfNan(ValueOrEmpty(target_tbl, target_row, "data_type"))
        source_len == EmptyIfNan(ValueOrEmpty(source_tbl, source_row, "max_length"))
        target_len == EmptyIfNan(ValueOrEmpty(target_tbl, target_row, "max_length"))
        \* str(row.get(col)).strip().lower(), then nan/none -> ""
        NullOf(tbl, row) ==
            LET v == lower(strip(Cell(tbl, row, "is_nullable")))
            IN  IF v \in {"nan", "none"} THEN "" ELSE v
        \* str(row.get(col)).strip(), then nan/none -> ""
        PlainOf(tbl, row, col) == EmptyIfNan(strip(Cell(tbl, row, col)))
        source_null == NullOf(source_tbl, source_row)
        target_null == NullOf(target_tbl, target_row)
        source_prec == PlainOf(source_tbl, source_row, "precision")
        target_prec == PlainOf(target_tbl, target_row, "precision")
        source_scale == PlainOf(source_tbl, source_row, "scale")
        target_scale == PlainOf(target_tbl, target_row, "scale")
        Checked(col) == col \in Range(compare_cols)
    IN  (IF source_dtype # target_dtype /\ (source_dtype # "" \/ target_dtype # "")
         THEN <<"datatype differs">> ELSE <<>>)
        \o
        (IF source_len # target_len /\ (source_len # "" \/ target_len # "")
         THEN <<"length differs">> ELSE <<>>)
        \o
        (IF Checked("is_nullable")
            /\ source_null # target_null /\ (source_null # "" \/ target_null # "")
         THEN <<"nullable differs">> ELSE <<>>)
        \o
        (IF Checked("precision")
            /\ source_prec # target_prec /\ (source_prec # "" \/ target_prec # "")
         THEN <<"precision differs">> ELSE <<>>)
        \o
        (IF Checked("scale")
            /\ source_scale # target_scale /\ (source_scale # "" \/ target_scale # "")
         THEN <<"scale differs">> ELSE <<>>)

\* Differences with the length tested before the data type.
Differences_LengthFirst(source_tbl, target_tbl, source_row, target_row, compare_cols) ==
    LET source_dtype == EmptyIfNan(ValueOrEmpty(source_tbl, source_row, "data_type"))
        target_dtype == EmptyIfNan(ValueOrEmpty(target_tbl, target_row, "data_type"))
        source_len == EmptyIfNan(ValueOrEmpty(source_tbl, source_row, "max_length"))
        target_len == EmptyIfNan(ValueOrEmpty(target_tbl, target_row, "max_length"))
        \* str(row.get(col)).strip().lower(), then nan/none -> ""
        NullOf(tbl, row) ==
            LET v == lower(strip(Cell(tbl, row, "is_nullable")))
            IN  IF v \in {"nan", "none"} THEN "" ELSE v
        \* str(row.get(col)).strip(), then nan/none -> ""
        PlainOf(tbl, row, col) == EmptyIfNan(strip(Cell(tbl, row, col)))
        source_null == NullOf(source_tbl, source_row)
        target_null == NullOf(target_tbl, target_row)
        source_prec == PlainOf(source_tbl, source_row, "precision")
        target_prec == PlainOf(target_tbl, target_row, "precision")
        source_scale == PlainOf(source_tbl, source_row, "scale")
        target_scale == PlainOf(target_tbl, target_row, "scale")
        Checked(col) == col \in Range(compare_cols)
    IN  (IF source_len # target_len /\ (source_len # "" \/ target_len # "")
         THEN <<"length differs">> ELSE <<>>)
        \o
        (IF lower(source_dtype) # lower(target_dtype) /\ (source_dtype # "" \/ target_dtype # "")
         THEN <<"datatype differs">> ELSE <<>>)
        \o
        (IF Checked("is_nullable")
            /\ source_null # target_null /\ (source_null # "" \/ target_null # "")
         THEN <<"nullable differs">> ELSE <<>>)
        \o
        (IF Checked("precision")
            /\ source_prec # target_prec /\ (source_prec # "" \/ target_prec # "")
         THEN <<"precision differs">> ELSE <<>>)
        \o
        (IF Checked("scale")
            /\ source_scale # target_scale /\ (source_scale # "" \/ target_scale # "")
         THEN <<"scale differs">> ELSE <<>>)

\* The labels of the differences of one column matched with equal spelling,
\* in the order they are appended (lines 145-180).
Differences(source_tbl, target_tbl, source_row, target_row, compare_cols) ==
    LET source_dtype == EmptyIfNan(ValueOrEmpty(source_tbl, source_row, "data_type"))
        target_dtype == EmptyIfNan(ValueOrEmpty(target_tbl, target_row, "data_type"))
        source_len == EmptyIfNan(ValueOrEmpty(source_tbl, source_row, "max_length"))
        target_len == EmptyIfNan(ValueOrEmpty(target_tbl, target_row, "max_length"))
        \* str(row.get(col)).strip().lower(), then nan/none -> ""
        NullOf(tbl, row) ==
            LET v == lower(strip(Cell(tbl, row, "is_nullable")))
            IN  IF v \in {"nan", "none"} THEN "" ELSE v
        \* str(row.get(col)).strip(), then nan/none -> ""
        PlainOf(tbl, row, col) == EmptyIfNan(strip(Cell(tbl, row, col)))
        source_null == NullOf(source_tbl, source_row)
        target_null == NullOf(target_tbl, target_row)
        source_prec == PlainOf(source_tbl, source_row, "precision")
        target_prec == PlainOf(target_tbl, target_row, "precision")
        source_scale == PlainOf(source_tbl, source_row, "scale")
        target_scale == PlainOf(target_tbl, target_row, "scale")
        Checked(col) == col \in Range(compare_cols)
    IN  (IF lower(source_dtype) # lower(target_dtype) /\ (source_dtype # "" \/ target_dtype # "")
         THEN <<"datatype differs">> ELSE <<>>)
        \o
        (IF source_len # target_len /\ (source_len # "" \/ target_len # "")
         THEN <<"length differs">> ELSE <<>>)
        \o
        (IF Checked("is_nullable")
            /\ source_null # target_null /\ (source_null # "" \/ target_null # "")
         THEN <<"nullable differs">> ELSE <<>>)
        \o
        (IF Checked("precision")
            /\ source_prec # target_prec /\ (source_prec # "" \/ target_prec # "")
         THEN <<"precision differs">> ELSE <<>>)
        \o
        (IF Checked("scale")
            /\ source_scale # target_scale /\ (source_scale # "" \/ target_scale # "")
         THEN <<"scale differs">> ELSE <<>>)

\* ColumnDiff without the test of the two spellings: a column found on
\* both sides always has its attributes compared.
ColumnDiff_SpellingIgnored(table, lc, source_tbl, target_tbl, source_map, target_map, compare_cols) ==
    LET source_col == MapGet(source_map, lc)
        target_col == MapGet(target_map, lc)
    IN  IF ~Truthy(source_col)
        THEN <<DiffRow(table, "", target_col, "", "", "", "", "column missing in SOURCE")>>
        ELSE IF ~Truthy(target_col)
        THEN <<DiffRow(table, source_col, "", "", "", "", "", "column missing in TARGET")>>
        ELSE LET source_row == FirstRowOf(source_tbl, lc)
                 target_row == FirstRowOf(target_tbl, lc)
                 differences == Differences(source_tbl, target_tbl, source_row,
                                            target_row, compare_cols)
             IN  IF differences # <<>>
                 THEN <<DiffRow(table, source_col, target_col,
                                EmptyIfNan(ValueOrEmpty(source_tbl, source_row, "data_type")),
                                EmptyIfNan(ValueOrEmpty(target_tbl, target_row, "data_type")),
                                EmptyIfNan(ValueOrEmpty(source_tbl, source_row, "max_length")),
                                EmptyIfNan(ValueOrEmpty(target_tbl, target_row, "max_length")),
                                join(", ", differences))>>
                 ELSE <<>>

\* ColumnDiff with the types and lengths of the first records carried in
\* the row of a rename.
ColumnDiff_RenameCarriesTypes(table, lc, source_tbl, target_tbl, source_map, target_map, compare_cols) ==
    LET source_col == MapGet(source_map, lc)
        target_col == MapGet(target_map, lc)
    IN  IF ~Truthy(source_col)
        THEN <<DiffRow(table, "", target_col, "", "", "", "", "column missing in SOURCE")>>
        ELSE IF ~Truthy(target_col)
        THEN <<DiffRow(table, source_col, "", "", "", "", "", "column missing in TARGET")>>
        ELSE LET source_row == FirstRowOf(source_tbl, lc)
                 target_row == FirstRowOf(target_tbl, lc)
                 differences == Differences(source_tbl, target_tbl, source_row,
                                            target_row, compare_cols)
                 comment == IF source_col # target_col THEN "column rename required"
                            ELSE join(", ", differences)
             IN  IF source_col # target_col \/ differences # <<>>
                 THEN <<DiffRow(table, source_col, target_col,
                                EmptyIfNan(ValueOrEmpty(source_tbl, source_row, "data_type")),
                                EmptyIfNan(ValueOrEmpty(target_tbl, target_row, "data_type")),
                                EmptyIfNan(ValueOrEmpty(source_tbl, source_row, "max_length")),
                                EmptyIfNan(ValueOrEmpty(target_tbl, target_row, "max_length")),
                                comment)>>
                 ELSE <<>>

\* The rows appended for column key lc of a table found on both sides
\* (lines 111-185): none or one.
ColumnDiff(table, lc, source_tbl, target_tbl, source_map, target_map, compare_cols) ==
    LET source_col == MapGet(source_map, lc)
        target_col == MapGet(target_map, lc)
    IN  IF ~Truthy(source_col)
        THEN <<DiffRow(table, "", target_col, "", "", "", "", "column missing in SOURCE")>>
        ELSE IF ~Truthy(target_col)
        THEN <<DiffRow(table, source_col, "", "", "", "", "", "column missing in TARGET")>>
        ELSE IF source_col # target_col
        THEN <<DiffRow(table, source_col, target_col, "", "", "", "", "column rename required")>>
        ELSE LET source_row == FirstRowOf(source_tbl, lc)
                 target_row == FirstRowOf(target_tbl, lc)
                 differences == Differences(source_tbl, target_tbl, source_row,
                                            target_row, compare_cols)
             IN  IF differences # <<>>
                 THEN <<DiffRow(table, source_col, target_col,
                                EmptyIfNan(ValueOrEmpty(source_tbl, source_row, "data_type")),
                                EmptyIfNan(ValueOrEmpty(target_tbl, target_row, "data_type")),
                                EmptyIfNan(ValueOrEmpty(source_tbl, source_row, "max_length")),
                                EmptyIfNan(ValueOrEmpty(target_tbl, target_row, "max_length")),
                                join(", ", differences))>>
                 ELSE <<>>

\* TableDiff with the labels of the two sides exchanged in the rows of a
\* missing table.
TableDiff_SidesExchanged(table, source, target, compare_cols) ==
    LET source_tbl == SelectRows(source, LAMBDA r : Cell(source, r, "table_name") = table)
        target_tbl == SelectRows(target, LAMBDA r : Cell(target, r, "table_name") = table)
    IN  IF source_tbl.rows = <<>>
        THEN <<DiffRow(table, "", "", "", "", "", "", "table missing in TARGET")>>
        ELSE IF target_tbl.rows = <<>>
        THEN <<DiffRow(table, "", "", "", "", "", "", "table missing in SOURCE")>>
        ELSE LET source_map == ColumnMap(source_tbl)
                 target_map == ColumnMap(target_tbl)
                 all_cols_list == sorted(DOMAIN source_map \cup DOMAIN target_map)
             IN  Concat(List([i \in 1..Len(all_cols_list) |->
                            ColumnDiff(table, all_cols_list[i], source_tbl, target_tbl,
                                       source_map, target_map, compare_cols)]))

\* TableDiff with the records of the target matched by schema as well:
\* those of the schema of the table's first source record.
TableDiff_SchemaQualified(table, source, target, compare_cols) ==
    LET source_tbl == SelectRows(source, LAMBDA r : Cell(source, r, "table_name") = table)
        target_all == SelectRows(target, LAMBDA r : Cell(target, r, "table_name") = table)
        target_tbl == IF source_tbl.rows = <<>> THEN target_all
                      ELSE SelectRows(target_all,
                               LAMBDA r : Cell(target, r, "schema_name")
                                            = Cell(source, source_tbl.rows[1], "schema_name"))
    IN  IF source_tbl.rows = <<>>
        THEN <<DiffRow(table, "", "", "", "", "", "", "table missing in SOURCE")>>
        ELSE IF target_tbl.rows = <<>>
        THEN <<DiffRow(table, "", "", "", "", "", "", "table missing in TARGET")>>
        ELSE LET source_map == ColumnMap(source_tbl)
                 target_map == ColumnMap(target_tbl)
                 all_cols_list == sorted(DOMAIN source_map \cup DOMAIN target_map)
             IN  Concat(List([i \in 1..Len(all_cols_list) |->
                            ColumnDiff(table, all_cols_list[i], source_tbl, target_tbl,
                                       source_map, target_map, compare_cols)]))

\* The rows appended for one table of all_tables (lines 94-185).
TableDiff(table, source, target, compare_cols) ==
    LET source_tbl == SelectRows(source, LAMBDA r : Cell(source, r, "table_name") = table)
        target_tbl == SelectRows(target, LAMBDA r : Cell(target, r, "table_name") = table)
    IN  IF source_tbl.rows = <<>>
        THEN <<DiffRow(table, "", "", "", "", "", "", "table missing in SOURCE")>>
        ELSE IF target_tbl.rows = <<>>
        THEN <<DiffRow(table, "", "", "", "", "", "", "table missing in TARGET")>>
        ELSE LET source_map == ColumnMap(source_tbl)
                 target_map == ColumnMap(target_tbl)
                 all_cols_list == sorted(DOMAIN source_map \cup DOMAIN target_map)
             IN  Concat(List([i \in 1..Len(all_cols_list) |->
                            ColumnDiff(table, all_cols_list[i], source_tbl, target_tbl,
                                       source_map, target_map, compare_cols)]))

\* CompareRows with the values of the source stripped and those of the
\* target left as they were read.
CompareRows_TargetNotStripped(source, target) ==
    LET compare_cols == get_common_columns(source, target)
        all_cols == REQUIRED_COLUMNS \o compare_cols
        s == StripColumns(source, all_cols)
        t == target
        all_tables == sorted(Range(ColumnValues(s, "table_name"))
                             \cup Range(ColumnValues(t, "table_name")))
    IN  Concat(List([i \in 1..Len(all_tables) |->
                        TableDiff(all_tables[i], s, t, compare_cols)]))

\* The rows compare_schemas returns for inputs whose labels are normalized
\* and hold the required columns (lines 79-199).
CompareRows(source, target) ==
    LET compare_cols == get_common_columns(source, target)
        all_cols == REQUIRED_COLUMNS \o compare_cols
        s == StripColumns(source, all_cols)
        t == StripColumns(target, all_cols)
        all_tables == sorted(Range(ColumnValues(s, "table_name"))
                             \cup Range(ColumnValues(t, "table_name")))
    IN  Concat(List([i \in 1..Len(all_tables) |->
                        TableDiff(all_tables[i], s, t, compare_cols)]))

\* compare_schemas(source, target): [error |-> the ValueError's message, ""
\* when none is raised, df |-> None or the returned rows].
compare_schemas(source, target) ==
    LET s == AddDefaultSchema(normalize_columns(source))
        t == AddDefaultSchema(normalize_columns(target))
        error == RequiredColumnError(s, t)
    IN  IF error # "" THEN [error |-> error, df |-> None]
        ELSE [error |-> "", df |-> Some(CompareRows(s, t))]

\* ------------------------------------------------------------------------
\* compare.py: build_schema_changes_from_df
\* ------------------------------------------------------------------------

\* row.get(key, default) on a row of the diff
RowGet(row, key, default) == IF key \in DOMAIN row THEN row[key] ELSE default

\* RenameChange with from and to chosen without regard to the direction.
RenameChange_DirectionIgnored(row, direction) ==
    [change_type |-> "column_rename",
     table |-> row.table_name,
     from |-> row.column_in_source,
     to |-> row.column_in_target,
     direction |-> direction]

\* The descriptor of a "rename" row (lines 231-243).
RenameChange(row, direction) ==
    [change_type |-> "column_rename",
     table |-> row.table_name,
     from |-> IF direction = "target_to_source"
              THEN row.column_in_target ELSE row.column_in_source,
     to |-> IF direction = "target_to_source"
            THEN row.column_in_source ELSE row.column_in_target,
     direction |-> direction]

\* The descriptor of a "missing" row (lines 245-261).
MissingChange(row, comment, direction) ==
    IF Contains("source", lower(comment))
    THEN [change_type |-> "add_column",
          table |-> row.table_name,
          column |-> row.column_in_target,
          target |-> IF direction = "target_to_source" THEN "source" ELSE "target",
          direction |-> direction]
    ELSE [change_type |-> "add_column",
          table |-> row.table_name,
          column |-> row.column_in_source,
          target |-> IF direction = "target_to_source" THEN "target" ELSE "source",
          direction |-> direction]

\* The descriptor of one part of a "differs" comment (lines 267-279).
MismatchChange(row, part, direction) ==
    LET diff == strip(part)
        source_val == RowGet(row, "source_" \o diff, "")
        target_val == RowGet(row, "target_" \o diff, "")
    IN  [change_type |-> diff \o "_mismatch",
         table |-> row.table_name,
         column |-> IF Truthy(row.column_in_source)
                    THEN row.column_in_source ELSE row.column_in_target,
         from |-> IF direction = "target_to_source" THEN target_val ELSE source_val,
         to |-> IF direction = "target_to_source" THEN source_val ELSE target_val,
         direction |-> direction]

\* The descriptors appended for one row of the diff (lines 226-286).
RowChanges(row, direction) ==
    LET comment == lower(row.comment)
    IN  IF Contains("column rename required", comment) \/ Contains("rename", comment)
        THEN <<RenameChange(row, direction)>>
        ELSE IF Contains("column missing", comment) \/ Contains("missing", comment)
        THEN <<MissingChange(row, comment, direction)>>
        ELSE IF Contains("differs", comment)
        THEN LET diff_parts == split(strip(replace(comment, "differs:", "")), ",")
             IN  List([i \in 1..Len(diff_parts) |->
                         MismatchChange(row, diff_parts[i], direction)])
        ELSE <<>>

\* build_schema_changes_from_df(df, direction)
build_schema_changes_from_df(df, direction) ==
    Concat(List([i \in 1..Len(df) |-> RowChanges(df[i], direction)]))

\* ------------------------------------------------------------------------
\* app.py: type mapping and SQL generation
\* ------------------------------------------------------------------------

\* The synonym table of normalize_mssql_datatype.
mapping ==
    [INT |-> "INT", INTEGER |-> "INT", BIGINT |-> "BIGINT", SMALLINT |-> "SMALLINT",
     BOOLEAN |-> "BIT", BOOL |-> "BIT", BIT |-> "BIT", DATE |-> "DATE",
     DATETIME |-> "DATETIME", TIMESTAMP |-> "DATETIME2", TEXT |-> "VARCHAR(MAX)"]

\* normalize_mssql_datatype with the length appended to every type.
normalize_mssql_datatype_LengthAlways(dtype, length) ==
    IF ~Truthy(dtype) THEN "VARCHAR(255)"
    ELSE LET dt == upper(dtype)
             base == IF dt \in DOMAIN mapping THEN mapping[dt] ELSE dt
         IN  IF Truthy(length) THEN base \o "(" \o length \o ")" ELSE base

\* normalize_mssql_datatype(dtype, length)
normalize_mssql_datatype(dtype, length) ==
    IF ~Truthy(dtype) THEN "VARCHAR(255)"
    ELSE LET dt == upper(dtype)
             base == IF dt \in DOMAIN mapping THEN mapping[dt] ELSE dt
         IN  IF base \in {"VARCHAR", "NVARCHAR"} /\ Truthy(length)
             THEN base \o "(" \o length \o ")"
             ELSE IF base \in {"DECIMAL", "NUMERIC"} /\ Truthy(length)
             THEN base \o "(" \o length \o ")"
             ELSE base

\* TablesInOrder with a table placed by its last descriptor.
RECURSIVE TablesInOrder_LastDescriptor(_)
TablesInOrder_LastDescriptor(changes) ==
    IF changes = <<>> THEN <<>>
    ELSE LET rest == TablesInOrder_LastDescriptor(Tail(changes))
             t == Head(changes).table
         IN  IF t \in Range(rest) THEN rest ELSE <<t>> \o rest

\* The tables of a descriptor list in the order of their first descriptor
\* (the key order of by_table).
RECURSIVE TablesInOrder(_)
TablesInOrder(changes) ==
    IF changes = <<>> THEN <<>>
    ELSE LET rest == TablesInOrder(SubSeq(changes, 1, Len(changes) - 1))
             t == changes[Len(changes)].table
         IN  IF t \in Range(rest) THEN rest ELSE Append(rest, t)

\* Statement with the two names of a rename exchanged.
Statement_RenameExchanged(table, c) ==
    IF c.change_type = "missing_column"
    THEN <<"ALTER TABLE " \o table \o " ADD " \o c.column \o " " \o c.datatype \o ";\nGO">>
    ELSE IF c.change_type = "datatype_mismatch"
    THEN <<"ALTER TABLE " \o table \o " ALTER COLUMN " \o c.column \o " " \o c.to \o ";\nGO">>
    ELSE IF c.change_type = "column_rename"
    THEN <<"EXEC sp_rename '" \o table \o "." \o c.to \o "', '" \o c.from \o "', 'COLUMN';\nGO">>
    ELSE <<>>

\* The statement generate_mssql_sql appends for one descriptor: none or one.
Statement(table, c) ==
    IF c.change_type = "missing_column"
    THEN <<"ALTER TABLE " \o table \o " ADD " \o c.column \o " " \o c.datatype \o ";\nGO">>
    ELSE IF c.change_type = "datatype_mismatch"
    THEN <<"ALTER TABLE " \o table \o " ALTER COLUMN " \o c.column \o " " \o c.to \o ";\nGO">>
    ELSE IF c.change_type = "column_rename"
    THEN <<"EXEC sp_rename '" \o table \o "." \o c.from \o "', '" \o c.to \o "', 'COLUMN';\nGO">>
    ELSE <<>>

\* The lines generate_mssql_sql collects in sql for a non-empty list.
SqlLines(changes) ==
    LET tables == TablesInOrder(changes)
        Block(table) ==
            LET items == SelectSeq(changes, LAMBDA c : c.table = table)
            IN  <<"-- Changes for table " \o table>>
                \o Concat(List([i \in 1..Len(items) |-> Statement(table, items[i])]))
                \o <<"">>
    IN  Concat(List([i \in 1..Len(tables) |-> Block(tables[i])]))

\* generate_mssql_sql without the early return for an empty list.
generate_mssql_sql_NoPlaceholder(changes) == join("\n", SqlLines(changes))

\* generate_mssql_sql(changes)
generate_mssql_sql(changes) ==
    IF changes = <<>> THEN "-- No schema changes required"
    ELSE join("\n", SqlLines(changes))

\* The descriptor sql_preview appends to enhanced for descriptor c of raw
\* (lines 444-460): none for a missing_table descriptor.
Enhance(df, c) ==
    LET row == df[CHOOSE i \in 1..Len(df) :
                    /\ df[i].table_name = c.table
                    /\ \A j \in 1..Len(df) : df[j].table_name = c.table => i <= j]
    IN  IF c.change_type = "missing_table" THEN <<>>
        ELSE IF c.change_type = "missing_column"
        THEN <<[k \in DOMAIN c \cup {"datatype"} |->
                  IF k = "datatype"
                  THEN normalize_mssql_datatype(row.source_datatype, row.source_length)
                  ELSE c[k]]>>
        ELSE IF c.change_type = "datatype_mismatch"
        THEN <<[c EXCEPT !.to = normalize_mssql_datatype(c.to, "")]>>
        ELSE <<c>>

\* The body of the answer of sql_preview with changes_count the number of
\* statements of the script.
PreviewBody_CountsStatements(df, options, raw) ==
    LET enhanced == Concat(List([i \in 1..Len(raw) |-> Enhance(df, raw[i])]))
    IN  [database |-> upper(options.database),
         direction |-> upper(replace(options.direction, "_", " ")),
         sql |-> generate_mssql_sql(enhanced),
         changes_count |->
            Len(Concat(List([i \in 1..Len(enhanced) |-> Statement(enhanced[i].table, enhanced[i])]))),
         changes |-> enhanced]

\* The body of the answer of sql_preview for the list raw (lines 442-474).
PreviewBody(df, options, raw) ==
    LET enhanced == Concat(List([i \in 1..Len(raw) |-> Enhance(df, raw[i])]))
    IN  [database |-> upper(options.database),
         direction |-> upper(replace(options.direction, "_", " ")),
         sql |-> generate_mssql_sql(enhanced),
         changes_count |-> Len(enhanced),
         changes |-> enhanced]

\* ------------------------------------------------------------------------
\* The accounts and requests of the password reset routes
\* ------------------------------------------------------------------------

\* users.email by user id.
RegisteredEmails == <<"alice@example.com", "bob@example.com">>

\* The addresses a client sends to /forgot-password: the registered ones
\* and another spelling of the first.
Emails == Range(RegisteredEmails) \cup {"Alice@example.com"}

\* The /reset-password requests a run follows.
ResetRequests == {"r1", "r2"}

\* The state of the password reset routes before any request: no attempt
\* recorded, no token issued, the passwords the accounts were created with.
AuthIdle ==
    /\ now = 0
    /\ password_reset_attempts = <<>>
    /\ reset_tokens = <<>>
    /\ hashed_password = [id \in 1..Len(RegisteredEmails) |-> "created"]
    /\ reset_requests = [r \in ResetRequests |-> [pc |-> "idle"]]
    /\ rate_log = <<>>
    /\ reset_log = <<>>

\* ------------------------------------------------------------------------
\* Uploaded files
\* ------------------------------------------------------------------------

\* Most rows of an uploaded file in the comparison runs.
MaxRows == 2

\* Most rows of an uploaded file in the request pipeline runs.
MaxUploadRows == 1

\* The sequences of at most n elements of S, none of them twice: the files
\* drawn hold no line twice (records with the same key and other values
\* are among them).
SeqsUpTo(S, n) ==
    UNION { {f \in [1..k -> S] : \A i, j \in 1..k : f[i] = f[j] => i = j} : k \in 0..n }

Uploads(n) ==
    { [columns |-> FullHeader, rows |-> rs] : rs \in SeqsUpTo(FullRows, n) }
    \cup { [columns |-> AliasHeader, rows |-> rs] : rs \in SeqsUpTo(AliasRows, n) }
    \cup { [columns |-> TableOnlyHeader, rows |-> rs] : rs \in SeqsUpTo(TableOnlyRows, n) }
    \cup { [columns |-> ColumnOnlyHeader, rows |-> rs] : rs \in SeqsUpTo(ColumnOnlyRows, n) }

\* ------------------------------------------------------------------------
\* Operations
\* ------------------------------------------------------------------------

\* The markers pandas reads as a missing value, among the strings of the
\* uploaded files.
na_values == {"", "nan", "None"}

\* read_schema_file(upload): every cell a string, a missing value read as "".
read_schema_file(upload) ==
    [columns |-> upload.columns,
     rows |-> List([i \in 1..Len(upload.rows) |->
                 List([j \in 1..Len(upload.rows[i]) |->
                     IF upload.rows[i][j] \in na_values THEN "" ELSE upload.rows[i][j]])])]

\* The history after the request has been answered 200.
Completed(request) == completed \cup {request}

\* POST /compare (app.py lines 322-357): an exception of compare_schemas
\* leaves the global as it was.
Compare ==
    \E r \in {compare_schemas(read_schema_file(source_file), read_schema_file(target_file))} :
        /\ compare_result' = Some(r)
        /\ latest_comparison_df' = IF r.error = "" THEN r.df ELSE latest_comparison_df
        /\ completed' = IF r.error = "" THEN Completed("/compare") ELSE completed
        /\ UNCHANGED <<source_file, target_file, latest_fix_options, build_call, response,
                       sessions, calls>>

\* POST /confirm-fix-options (lines 366-371)
ConfirmFixOptions(options) ==
    /\ latest_fix_options' = Some(options)
    /\ completed' = Completed("/confirm-fix-options")
    /\ UNCHANGED <<source_file, target_file, compare_result, latest_comparison_df,
                   build_call, response, sessions, calls>>

\* GET /sql-preview (lines 430-474)
SqlPreview ==
    /\ IF latest_comparison_df = None \/ latest_fix_options = None
       THEN /\ response' = Some([status |-> 400, detail |-> "Missing comparison data"])
            /\ UNCHANGED build_call
       ELSE LET df == latest_comparison_df[1]
                options == latest_fix_options[1]
                raw == build_schema_changes_from_df(df, options.direction)
            IN  /\ build_call' = Some([df |-> df, direction |-> options.direction,
                                       changes |-> raw])
                /\ response' = Some([status |-> 200, body |-> PreviewBody(df, options, raw)])
    /\ UNCHANGED <<source_file, target_file, compare_result, latest_comparison_df,
                   latest_fix_options, sessions, others>>

\* The fix options a client sends.
FixOptions == [database : {"mssql"}, direction : {"source_to_target", "target_to_source"}]

Init ==
    /\ source_file \in Uploads(MaxUploadRows)
    /\ target_file \in Uploads(MaxUploadRows)
    /\ compare_result = None
    /\ latest_comparison_df = None
    /\ latest_fix_options = None
    /\ build_call = None
    /\ response = None
    /\ completed = {}
    /\ sessions = <<>>
    /\ render_call = None
    /\ mapper_call = None
    /\ normalize_call = None
    /\ AuthIdle

Next ==
    \/ Compare
    \/ \E options \in FixOptions : ConfirmFixOptions(options)
    \/ SqlPreview

\* The requests of one client holding a pair of files, in any order.
Spec == Init /\ [][Next]_vars

InitCompare ==
    /\ source_file \in Uploads(MaxRows)
    /\ target_file \in Uploads(MaxRows)
    /\ compare_result = None
    /\ latest_comparison_df = None
    /\ latest_fix_options = None
    /\ build_call = None
    /\ response = None
    /\ completed = {}
    /\ sessions = <<>>
    /\ render_call = None
    /\ mapper_call = None
    /\ normalize_call = None
    /\ AuthIdle

\* One call of compare_schemas on the drawn pair of frames.
CompareOnce ==
    /\ compare_result = None
    /\ compare_result' = Some(compare_schemas(source_file, target_file))
    /\ UNCHANGED <<source_file, target_file, latest_comparison_df, latest_fix_options,
                   build_call, response, sessions, others>>

NextCompare == CompareOnce

\* compare_schemas applied to every pair of frames of at most MaxRows rows.
SpecCompare == InitCompare /\ [][NextCompare]_vars

\* ------------------------------------------------------------------------
\* compare_schemas on files with a schema column
\* ------------------------------------------------------------------------

\* Most rows of an uploaded file in the runs with a schema column.
MaxSchemaRows == 1

\* The label of the schema column of a file (an alias of schema_name) and
\* the schemas its records name.
SchemaLabel == " Schema"

SchemaNames == {"dbo", "sales"}

\* The upload with a schema column in front, names[i] for its i-th record.
WithSchema(upload, names) ==
    [columns |-> <<SchemaLabel>> \o upload.columns,
     rows |-> [i \in 1..Len(upload.rows) |-> <<names[i]>> \o upload.rows[i]]]

\* The files of at most n rows, with and without a schema column.
SchemaUploads(n) ==
    Uploads(n)
    \cup UNION { { WithSchema(u, names) : names \in [1..Len(u.rows) -> SchemaNames] } :
                    u \in Uploads(n) }

InitSchema ==
    /\ source_file \in SchemaUploads(MaxSchemaRows)
    /\ target_file \in SchemaUploads(MaxSchemaRows)
    /\ compare_result = None
    /\ latest_comparison_df = None
    /\ latest_fix_options = None
    /\ build_call = None
    /\ response = None
    /\ completed = {}
    /\ sessions = <<>>
    /\ render_call = None
    /\ mapper_call = None
    /\ normalize_call = None
    /\ AuthIdle

\* compare_schemas applied to every pair of files of at most MaxSchemaRows
\* rows, with or without a schema column.
SpecSchema == InitSchema /\ [][NextCompare]_vars

\* ------------------------------------------------------------------------
\* Two users of one server process
\* ------------------------------------------------------------------------

\* The users logged in (current_user of the handlers).
Users == {"alice", "bob"}

\* The pairs of files a user may hold.
UserFiles ==
    { [source |-> [columns |-> FullHeader,
                   rows |-> <<<<"users", "Email", "VARCHAR", "100", "YES", "", "", "">>>>],
       target |-> [columns |-> FullHeader,
                   rows |-> <<<<"users", "email", "VARCHAR", "150", "YES", "", "", "">>>>]],
      [source |-> [columns |-> FullHeader,
                   rows |-> <<<<"users", "id", "INT", "", "NO", "10", "0", "0">>>>],
       target |-> [columns |-> FullHeader,
                   rows |-> <<<<"orders", "id", "INT", "None", "NO", "10", "0", "0">>>>]] }

\* POST /compare by user u (app.py lines 322-357): the diff is stored in
\* the module global.
UserCompare(u) ==
    \E r \in {compare_schemas(read_schema_file(sessions[u].files.source),
                              read_schema_file(sessions[u].files.target))} :
        /\ latest_comparison_df' = IF r.error = "" THEN r.df ELSE latest_comparison_df
        /\ sessions' = [sessions EXCEPT ![u].compared =
                            IF r.error = "" THEN r.df ELSE sessions[u].compared]
        /\ UNCHANGED <<source_file, target_file, compare_result, latest_fix_options,
                       build_call, response, others>>

\* POST /confirm-fix-options by user u (lines 366-371): the options are
\* stored in the module global.
UserConfirmFixOptions(u, options) ==
    /\ latest_fix_options' = Some(options)
    /\ sessions' = [sessions EXCEPT ![u].options = Some(options)]
    /\ UNCHANGED <<source_file, target_file, compare_result, latest_comparison_df,
                   build_call, response, others>>

\* GET /sql-preview by user u (lines 430-474): answered from the module
\* globals.
UserSqlPreview(u) ==
    /\ sessions' = [sessions EXCEPT ![u].response =
          IF latest_comparison_df = None \/ latest_fix_options = None
          THEN Some([status |-> 400, detail |-> "Missing comparison data"])
          ELSE LET df == latest_comparison_df[1]
                   options == latest_fix_options[1]
               IN  Some([status |-> 200,
                         body |-> PreviewBody(df, options,
                                      build_schema_changes_from_df(df, options.direction))])]
    /\ UNCHANGED <<source_file, target_file, compare_result, latest_comparison_df,
                   latest_fix_options, build_call, response, others>>

InitUsers ==
    /\ source_file = None
    /\ target_file = None
    /\ compare_result = None
    /\ latest_comparison_df = None
    /\ latest_fix_options = None
    /\ build_call = None
    /\ response = None
    /\ completed = {}
    /\ sessions \in [Users -> { [files |-> f, compared |-> None, options |-> None,
                                 response |-> None] : f \in UserFiles }]
    /\ render_call = None
    /\ mapper_call = None
    /\ normalize_call = None
    /\ AuthIdle

NextUsers ==
    \E u \in Users :
        \/ UserCompare(u)
        \/ \E options \in FixOptions : UserConfirmFixOptions(u, options)
        \/ UserSqlPreview(u)

\* The requests of two users of one server process, in any interleaving.
SpecUsers == InitUsers /\ [][NextUsers]_vars

\* ------------------------------------------------------------------------
\* generate_mssql_sql on its own
\* ------------------------------------------------------------------------

\* Most descriptors of a list handed to generate_mssql_sql.
MaxChanges == 3

\* The descriptors of the lists: of the three types the generator renders,
\* and of a type it does not know.
Descriptors ==
    { [change_type |-> "missing_column", table |-> "users", column |-> "id",
       datatype |-> "INT"],
      [change_type |-> "datatype_mismatch", table |-> "users", column |-> "email",
       to |-> "VARCHAR(150)"],
      [change_type |-> "column_rename", table |-> "users", from |-> "Email", to |-> "email"],
      [change_type |-> "column_rename", table |-> "orders", from |-> "ID", to |-> "id"],
      [change_type |-> "missing_column", table |-> "orders", column |-> "total",
       datatype |-> "DECIMAL(10)"],
      [change_type |-> "add_column", table |-> "items", column |-> "id"] }

InitRender ==
    /\ source_file = None
    /\ target_file = None
    /\ compare_result = None
    /\ latest_comparison_df = None
    /\ latest_fix_options = None
    /\ build_call = None
    /\ response = None
    /\ completed = {}
    /\ sessions = <<>>
    /\ render_call \in { [changes |-> cs, sql |-> None] :
                            cs \in UNION { [1..k -> Descriptors] : k \in 0..MaxChanges } }
    /\ mapper_call = None
    /\ normalize_call = None
    /\ AuthIdle

\* One call of generate_mssql_sql on the drawn list.
Render ==
    /\ render_call.sql = None
    /\ render_call' = [render_call EXCEPT !.sql = Some(generate_mssql_sql(render_call.changes))]
    /\ UNCHANGED <<source_file, target_file, compare_result, latest_comparison_df,
                   latest_fix_options, build_call, response, completed, sessions,
                   mapper_call, normalize_call, auth>>

NextRender == Render

\* generate_mssql_sql applied to every list of at most MaxChanges descriptors.
SpecRender == InitRender /\ [][NextRender]_vars

\* ------------------------------------------------------------------------
\* normalize_mssql_datatype on its own
\* ------------------------------------------------------------------------

\* The raw types handed to the mapper: none, synonyms and names of the
\* table in several cases, the families that take a length, unknown names.
RawTypes ==
    { PyNone, "", "int", "INTEGER", "Integer", "bigint", "smallint", "bool", "BOOLEAN",
      "bit", "date", "datetime", "Timestamp", "text", "TEXT", "varchar", "NVARCHAR",
      "Decimal", "numeric", "char", "geography", " int" }

\* The lengths handed to the mapper: none, the default '' and two values.
RawLengths == { PyNone, "", "50", "10,2" }

InitMapper ==
    /\ source_file = None
    /\ target_file = None
    /\ compare_result = None
    /\ latest_comparison_df = None
    /\ latest_fix_options = None
    /\ build_call = None
    /\ response = None
    /\ completed = {}
    /\ sessions = <<>>
    /\ render_call = None
    /\ mapper_call \in { [dtype |-> d, length |-> l, returned |-> None] :
                            d \in RawTypes, l \in RawLengths }
    /\ normalize_call = None
    /\ AuthIdle

\* One call of normalize_mssql_datatype on the drawn arguments.
MapType ==
    /\ mapper_call.returned = None
    /\ mapper_call' = [mapper_call EXCEPT !.returned =
                          Some(normalize_mssql_datatype(mapper_call.dtype, mapper_call.length))]
    /\ UNCHANGED <<source_file, target_file, compare_result, latest_comparison_df,
                   latest_fix_options, build_call, response, completed, sessions,
                   render_call, normalize_call, auth>>

NextMapper == MapType

\* normalize_mssql_datatype applied to every pair of a raw type and a length.
SpecMapper == InitMapper /\ [][NextMapper]_vars

\* ------------------------------------------------------------------------
\* normalize_columns on its own
\* ------------------------------------------------------------------------

\* The caller's frame after line 30 of compare.py, df.columns =
\* df.columns.str.strip().str.lower(): the assignment changes the labels of
\* the frame passed in; df.rename then returns another frame.
columns_assigned(df) ==
    [columns |-> List([i \in 1..Len(df.columns) |-> lower(strip(df.columns[i]))]),
     rows |-> df.rows]

InitNormalize ==
    /\ source_file = None
    /\ target_file = None
    /\ compare_result = None
    /\ latest_comparison_df = None
    /\ latest_fix_options = None
    /\ build_call = None
    /\ response = None
    /\ completed = {}
    /\ sessions = <<>>
    /\ render_call = None
    /\ mapper_call = None
    /\ normalize_call \in { [given |-> f, df |-> f, returned |-> None] :
                               f \in Uploads(MaxRows) }
    /\ AuthIdle

\* One call of normalize_columns on the caller's frame.
NormalizeColumns ==
    /\ normalize_call.returned = None
    /\ normalize_call' = [normalize_call EXCEPT
                             !.df = columns_assigned(normalize_call.df),
                             !.returned = Some(normalize_columns(normalize_call.df))]
    /\ UNCHANGED <<source_file, target_file, compare_result, latest_comparison_df,
                   latest_fix_options, build_call, response, completed, sessions,
                   render_call, mapper_call, auth>>

NextNormalize == NormalizeColumns

\* normalize_columns applied to every frame of at most MaxRows rows.
SpecNormalize == InitNormalize /\ [][NextNormalize]_vars

\* ------------------------------------------------------------------------
\* app.py, backend/auth.py: the password reset routes
\* ------------------------------------------------------------------------

MAX_RESET_ATTEMPTS == 3

RESET_WINDOW_HOURS == 1

RESET_TOKEN_EXPIRE_HOURS == 1

\* The ticks of the clock in timedelta(hours=1).
TicksPerHour == 2

\* Last tick of the clock in a run.
MaxClock == 3

\* Most /forgot-password requests in a run of these requests alone.
MaxForgot == 5

\* Most /forgot-password requests in a run with /reset-password requests.
MaxResetForgot == 2

\* password_reset_attempts[email] of a defaultdict(list)
AttemptsOf(attempts, email) == IF email \in DOMAIN attempts THEN attempts[email] ELSE <<>>

\* check_rate_limit with the attempts at the cutoff itself kept.
check_rate_limit_CutoffKept(attempts, email, utcnow) ==
    LET cutoff == utcnow - RESET_WINDOW_HOURS * TicksPerHour
        kept == SelectSeq(AttemptsOf(attempts, email), LAMBDA t : t >= cutoff)
    IN  IF Len(kept) >= MAX_RESET_ATTEMPTS
        THEN [allowed |-> FALSE, attempts |-> (email :> kept) @@ attempts]
        ELSE [allowed |-> TRUE, attempts |-> (email :> Append(kept, utcnow)) @@ attempts]

\* check_rate_limit(email) at the time utcnow: what it returns and the
\* dictionary it leaves.
check_rate_limit(attempts, email, utcnow) ==
    LET cutoff == utcnow - RESET_WINDOW_HOURS * TicksPerHour
        kept == SelectSeq(AttemptsOf(attempts, email), LAMBDA t : t > cutoff)
    IN  IF Len(kept) >= MAX_RESET_ATTEMPTS
        THEN [allowed |-> FALSE, attempts |-> (email :> kept) @@ attempts]
        ELSE [allowed |-> TRUE, attempts |-> (email :> Append(kept, utcnow)) @@ attempts]

\* db.query(User).filter(User.email == email).first(): the user's id, 0
\* for None.
UserByEmail(email) ==
    IF \E id \in 1..Len(RegisteredEmails) : RegisteredEmails[id] = email
    THEN CHOOSE id \in 1..Len(RegisteredEmails) : RegisteredEmails[id] = email
    ELSE 0

\* create_reset_token_record(db, user_id): the table after the commit. The
\* token generated is one no row has.
create_reset_token_record(tokens, user_id, utcnow) ==
    Append([i \in 1..Len(tokens) |->
                IF tokens[i].user_id = user_id /\ ~tokens[i].used
                THEN [tokens[i] EXCEPT !.used = TRUE] ELSE tokens[i]],
           [user_id |-> user_id, token |-> Len(tokens) + 1,
            expires_at |-> utcnow + RESET_TOKEN_EXPIRE_HOURS * TicksPerHour,
            used |-> FALSE])

\* validate_reset_token(db, token): the user's id, 0 for None.
validate_reset_token(tokens, token, utcnow) ==
    LET found == {i \in 1..Len(tokens) : tokens[i].token = token /\ ~tokens[i].used}
    IN  IF found = {} THEN 0
        ELSE LET reset_token == tokens[CHOOSE i \in found : \A j \in found : i <= j]
             IN  IF utcnow > reset_token.expires_at THEN 0 ELSE reset_token.user_id

\* mark_token_used(db, token): the table after the commit.
mark_token_used(tokens, token) ==
    [i \in 1..Len(tokens) |->
        IF tokens[i].token = token THEN [tokens[i] EXCEPT !.used = TRUE] ELSE tokens[i]]

\* get_password_hash(password): a hash that verifies this password.
get_password_hash(password) == "bcrypt of " \o password

\* any(test(c) for c in password) for a test that holds of the characters
\* of alphabet
AnyCharIn(password, alphabet) ==
    \E i \in 1..Len(password) : \E j \in 1..Len(alphabet) : CharAt(password, i) = CharAt(alphabet, j)

\* The detail of the 400 answer of reset_password for the passwords sent,
\* "" when they pass (lines 576-589).
PasswordError(new_password, confirm_password) ==
    IF Len(new_password) < 8 THEN "Password must be at least 8 characters long"
    ELSE IF ~AnyCharIn(new_password, UpperAlphabet)
    THEN "Password must contain at least one uppercase letter"
    ELSE IF ~AnyCharIn(new_password, LowerAlphabet)
    THEN "Password must contain at least one lowercase letter"
    ELSE IF ~AnyCharIn(new_password, "0123456789")
    THEN "Password must contain at least one number"
    ELSE IF new_password # confirm_password THEN "Passwords do not match"
    ELSE ""

\* The passwords a client sends.
Passwords == {"Abcdefg1", "abcdefgh"}

\* The clock advances.
Tick ==
    /\ now < MaxClock
    /\ now' = now + 1
    /\ UNCHANGED <<password_reset_attempts, reset_tokens, hashed_password, reset_requests,
                   rate_log, reset_log, comparison>>

\* POST /forgot-password (app.py lines 522-555): 429 when the rate limit
\* refuses, 400 for an address that is not registered, otherwise a token is
\* issued and mailed. A run follows at most `most` of these requests.
ForgotPassword(email, most) ==
    /\ Len(rate_log) < most
    /\ \E limit \in {check_rate_limit(password_reset_attempts, lower(email), now)} :
          /\ password_reset_attempts' = limit.attempts
          /\ rate_log' = Append(rate_log, [email |-> lower(email), at |-> now,
                                           allowed |-> limit.allowed])
          /\ reset_tokens' =
                IF limit.allowed /\ UserByEmail(email) # 0
                THEN create_reset_token_record(reset_tokens, UserByEmail(email), now)
                ELSE reset_tokens
    /\ UNCHANGED <<now, hashed_password, reset_requests, reset_log, comparison>>

\* POST /reset-password up to the return of validate_reset_token (lines
\* 573-594): the request is answered 400, or goes on with the user found.
ResetValidate(r, token, new_password, confirm_password) ==
    /\ reset_requests[r].pc = "idle"
    /\ \E detail \in {PasswordError(new_password, confirm_password)},
          user \in {validate_reset_token(reset_tokens, token, now)} :
            reset_requests' = [reset_requests EXCEPT ![r] =
                IF detail # ""
                THEN [pc |-> "done", status |-> 400, detail |-> detail]
                ELSE IF user = 0
                THEN [pc |-> "done", status |-> 400, detail |-> "Invalid or expired token"]
                ELSE [pc |-> "validated", token |-> token, new_password |-> new_password,
                      user |-> user]]
    /\ UNCHANGED <<now, password_reset_attempts, reset_tokens, hashed_password, rate_log,
                   reset_log, comparison>>

\* POST /reset-password from the update of the password to the answer
\* (lines 596-605).
ResetCommit(r) ==
    /\ reset_requests[r].pc = "validated"
    /\ hashed_password' = [hashed_password EXCEPT ![reset_requests[r].user] =
                              get_password_hash(reset_requests[r].new_password)]
    /\ reset_tokens' = mark_token_used(reset_tokens, reset_requests[r].token)
    /\ reset_log' = Append(reset_log, [request |-> r, token |-> reset_requests[r].token])
    /\ reset_requests' = [reset_requests EXCEPT ![r] =
          [pc |-> "done", status |-> 200,
           message |-> "Password has been reset successfully. You can now login."]]
    /\ UNCHANGED <<now, password_reset_attempts, rate_log, comparison>>

InitReset ==
    /\ source_file = None
    /\ target_file = None
    /\ compare_result = None
    /\ latest_comparison_df = None
    /\ latest_fix_options = None
    /\ build_call = None
    /\ response = None
    /\ completed = {}
    /\ sessions = <<>>
    /\ render_call = None
    /\ mapper_call = None
    /\ normalize_call = None
    /\ AuthIdle

\* The /forgot-password requests of the clients as the clock advances.
NextRateLimit ==
    \/ Tick
    \/ \E email \in Emails : ForgotPassword(email, MaxForgot)

SpecRateLimit == InitReset /\ [][NextRateLimit]_vars

NextReset ==
    \/ Tick
    \/ \E email \in Emails : ForgotPassword(email, MaxResetForgot)
    \/ \E r \in ResetRequests, token \in 0..Len(reset_tokens),
          new_password \in Passwords, confirm_password \in Passwords :
             ResetValidate(r, token, new_password, confirm_password)
    \/ \E r \in ResetRequests : ResetCommit(r)

\* The password reset requests of the clients, in any interleaving, as the
\* clock advances.
SpecReset == InitReset /\ [][NextReset]_vars

\* ------------------------------------------------------------------------
\* Properties of compare_schemas
\* ------------------------------------------------------------------------

\* The table names of an upload as compare_schemas reads them.
TablesOf(upload) ==
    LET df == normalize_columns(upload)
    IN  { strip(v) : v \in Range(ColumnValues(df, "table_name")) }

\* The key under which compare_schemas matches a record: its table and its
\* column name in lower case.
KeyOf(df, row) ==
    <<strip(Cell(df, row, "table_name")), lower(strip(Cell(df, row, "column_name")))>>

\* Every record has a table name and a column name.
WellFormed(upload) ==
    LET df == normalize_columns(upload)
    IN  /\ \A c \in Range(REQUIRED_COLUMNS) : HasColumn(df, c)
        /\ \A i \in 1..Len(df.rows) :
              /\ KeyOf(df, df.rows[i])[1] # ""
              /\ KeyOf(df, df.rows[i])[2] # ""

\* No two records of the upload have the same key.
UniqueKeys(upload) ==
    LET df == normalize_columns(upload)
    IN  \A i, j \in 1..Len(df.rows) :
            KeyOf(df, df.rows[i]) = KeyOf(df, df.rows[j]) => i = j

\* The comparison has run and returned rows.
Compared == compare_result # None /\ compare_result[1].error = ""

\* C1: comparing a well-formed upload (every record has a table name and a
\* column name) with itself returns no row and raises nothing, whatever the
\* number of tables, the case of the column names and the empty, 'nan' or
\* 'none' values it holds.
C1_SelfComparisonIsEmpty ==
    (compare_result # None /\ source_file = target_file /\ WellFormed(source_file))
        => compare_result[1] = [error |-> "", df |-> Some(<<>>)]

\* An upload of two tables with an upper-case letter in a column name and a
\* 'None' value has been compared with itself.
C1_Witness ==
    /\ compare_result = Some([error |-> "", df |-> Some(<<>>)])
    /\ source_file = target_file
    /\ WellFormed(source_file)
    /\ source_file.columns = FullHeader
    /\ Cardinality(TablesOf(source_file)) = 2
    /\ \E r \in Range(source_file.rows) : r[2] # lower(r[2])
    /\ \E r \in Range(source_file.rows) : r[4] = "None"
    /\ \E r \in Range(source_file.rows) : r[6] = ""

\* C2: for every table name X the result holds a row 'table missing in
\* SOURCE' for X exactly when X is a table of the target and not of the
\* source, and a row 'table missing in TARGET' exactly when X is a table of
\* the source and not of the target; such a row is the only row of X and
\* its fields other than table_name and comment are empty.
C2_TableMissingRows ==
    Compared =>
        LET df == compare_result[1].df[1]
            S == TablesOf(source_file)
            T == TablesOf(target_file)
            RowsOf(X) == {i \in 1..Len(df) : df[i].table_name = X}
            Missing(X, side) ==
                \E i \in RowsOf(X) : df[i].comment = "table missing in " \o side
        IN  \A X \in S \cup T \cup {df[i].table_name : i \in 1..Len(df)} :
                /\ Missing(X, "SOURCE") <=> (X \notin S /\ X \in T)
                /\ Missing(X, "TARGET") <=> (X \in S /\ X \notin T)
                /\ (Missing(X, "SOURCE") \/ Missing(X, "TARGET")) =>
                      /\ Cardinality(RowsOf(X)) = 1
                      /\ \A i \in RowsOf(X) :
                            \A f \in DOMAIN df[i] \ {"table_name", "comment"} :
                                df[i][f] = ""

\* A comparison has reported one table missing in the source and has
\* compared the columns of another table found on both sides.
C2_Witness ==
    /\ Compared
    /\ TablesOf(source_file) \cap TablesOf(target_file) # {}
    /\ \E i \in 1..Len(compare_result[1].df[1]) :
          /\ compare_result[1].df[1][i].comment = "table missing in SOURCE"
          /\ compare_result[1].df[1][i].table_name \in TablesOf(target_file)
    /\ \E i \in 1..Len(compare_result[1].df[1]) :
          compare_result[1].df[1][i].table_name \in TablesOf(source_file)

\* The value of an attribute as two sides are told equal by: stripped,
\* 'nan' and 'none' read as empty, the case ignored for data_type and
\* is_nullable.
NormalizedValue(col, v) ==
    LET w == EmptyIfNan(strip(v))
    IN  IF col \in {"data_type", "is_nullable"} THEN lower(w) ELSE w

\* C3: when the comparison of two uploads with unique keys returns no row,
\* every non-key attribute found in both uploads (default_value among them)
\* has equal normalized values in the two records of every table and column
\* found on both sides.
C3_EmptyResultMeansEqualAttributes ==
    (/\ Compared
     /\ compare_result[1].df = Some(<<>>)
     /\ UniqueKeys(source_file)
     /\ UniqueKeys(target_file))
        => LET s == normalize_columns(source_file)
               t == normalize_columns(target_file)
               comparable == get_common_columns(s, t)
           IN  \A i \in 1..Len(s.rows), j \in 1..Len(t.rows) :
                   KeyOf(s, s.rows[i]) = KeyOf(t, t.rows[j]) =>
                       \A col \in Range(comparable) :
                           NormalizedValue(col, Cell(s, s.rows[i], col))
                               = NormalizedValue(col, Cell(t, t.rows[j], col))

\* The label a comment carries for a differing attribute.
AttributeLabel ==
    [data_type |-> "datatype differs", max_length |-> "length differs",
     is_nullable |-> "nullable differs", precision |-> "precision differs",
     scale |-> "scale differs"]

\* C4: an attribute that is a column of only one of the two normalized
\* uploads is never reported: no comment of the result holds its 'differs'
\* label.
C4_OneSidedAttributeNeverDiffers ==
    Compared =>
        LET df == compare_result[1].df[1]
            s == normalize_columns(source_file)
            t == normalize_columns(target_file)
        IN  \A col \in DOMAIN AttributeLabel :
                (HasColumn(s, col) # HasColumn(t, col)) =>
                    \A i \in 1..Len(df) : ~Contains(AttributeLabel[col], df[i].comment)

\* The records of a normalized frame under a key.
RecordsOf(df, key) == {r \in Range(df.rows) : KeyOf(df, r) = key}

\* The rows of a result for one column key of a table.
RowsOfColumn(df, table, lc) ==
    {i \in 1..Len(df) :
        /\ df[i].table_name = table
        /\ lc \in {lower(df[i].column_in_source), lower(df[i].column_in_target)}}

\* The frames of the scenario have been compared: under the key users/email
\* the source holds 'Email' VARCHAR 100 and the target 'email' VARCHAR 150.
C11_Scenario ==
    /\ Compared
    /\ LET s == normalize_columns(source_file)
           t == normalize_columns(target_file)
           Holds(df, spelling, length) ==
               /\ HasColumn(df, "data_type") /\ HasColumn(df, "max_length")
               /\ RecordsOf(df, <<"users", "email">>) # {}
               /\ \A r \in RecordsOf(df, <<"users", "email">>) :
                     /\ Cell(df, r, "column_name") = spelling
                     /\ Cell(df, r, "data_type") = "VARCHAR"
                     /\ Cell(df, r, "max_length") = length
       IN  Holds(s, "Email", "100") /\ Holds(t, "email", "150")

\* C11: comparing source users.Email VARCHAR 100 with target users.email
\* VARCHAR 150 returns exactly one row for that column: 'column rename
\* required' with both spellings and empty type and length fields; the
\* lengths are not compared.
C11_ScenarioYieldsRename ==
    C11_Scenario =>
        LET df == compare_result[1].df[1]
        IN  \E i \in 1..Len(df) :
                /\ RowsOfColumn(df, "users", "email") = {i}
                /\ df[i] = [table_name |-> "users", column_in_source |-> "Email",
                            column_in_target |-> "email", source_datatype |-> "",
                            target_datatype |-> "", source_length |-> "",
                            target_length |-> "", comment |-> "column rename required"]

\* The frames of the scenario have been compared and a row returned.
C11_Witness ==
    /\ C11_Scenario
    /\ compare_result[1].df[1] # <<>>
    /\ Len(source_file.rows) = 1 /\ Len(target_file.rows) = 1

\* C11 as stated: the scenario yields exactly one row for the column, with
\* comment 'length differs', source_length '100' and target_length '150'.
C11_ScenarioYieldsLengthDiffers ==
    C11_Scenario =>
        LET df == compare_result[1].df[1]
        IN  \E i \in 1..Len(df) :
                /\ RowsOfColumn(df, "users", "email") = {i}
                /\ df[i].comment = "length differs"
                /\ df[i].source_length = "100"
                /\ df[i].target_length = "150"

\* The column key of a row of the result: the lower-cased name it carries,
\* "" when it carries none.
RowKey(row) ==
    IF Truthy(row.column_in_source) THEN lower(row.column_in_source)
    ELSE IF Truthy(row.column_in_target) THEN lower(row.column_in_target)
    ELSE ""

\* C12: the rows of the result are in ascending order of table_name and,
\* within one table, in strictly ascending order of the lower-cased column
\* name, whatever the order of the records of the two frames.
C12_RowsAreSorted ==
    Compared =>
        LET df == compare_result[1].df[1]
        IN  \A i \in 1..(Len(df) - 1) :
                \/ StrLess(df[i].table_name, df[i + 1].table_name)
                \/ /\ df[i].table_name = df[i + 1].table_name
                   /\ StrLess(RowKey(df[i]), RowKey(df[i + 1]))

\* A source whose records are not in the order of their tables has been
\* compared, and the result has the rows of two tables, two of them of one
\* table.
C12_Witness ==
    /\ Compared
    /\ Len(source_file.rows) = 2
    /\ StrLess(source_file.rows[2][1], source_file.rows[1][1])
    /\ LET df == compare_result[1].df[1]
       IN  /\ Len(df) >= 3
           /\ df[1].table_name # df[2].table_name
           /\ df[2].table_name = df[3].table_name

\* C13: compare_schemas raises its validation error exactly when, after
\* the aliases are resolved, table_name or column_name is not a column of
\* the source or of the target; the message names a side that lacks a
\* required column and that column, and no rows are returned with it.
C13_ValidationErrorIffRequiredColumnMissing ==
    compare_result # None =>
        LET r == compare_result[1]
            s == normalize_columns(source_file)
            t == normalize_columns(target_file)
            Side(name) == IF name = "SOURCE" THEN s ELSE t
        IN  /\ (r.error # "") <=>
                  \E col \in {"table_name", "column_name"} :
                      ~HasColumn(s, col) \/ ~HasColumn(t, col)
            /\ (r.error # "") =>
                  /\ r.df = None
                  /\ \E name \in {"SOURCE", "TARGET"}, col \in {"table_name", "column_name"} :
                        /\ r.error = name \o " file missing required column: " \o col
                        /\ ~HasColumn(Side(name), col)
            /\ (r.error = "") => r.df # None

\* A source without column_name and a target without table_name have been
\* compared: the error names the target and table_name.
C13_Witness ==
    /\ compare_result # None
    /\ source_file.columns = TableOnlyHeader
    /\ target_file.columns = ColumnOnlyHeader
    /\ compare_result[1] = [error |-> "TARGET file missing required column: table_name",
                            df |-> None]

\* The canonical names of which h is an alias.
CanonicalOf(h) ==
    {COLUMN_ALIASES[k].standard : k \in {j \in 1..Len(COLUMN_ALIASES) :
                                            h \in COLUMN_ALIASES[j].aliases}}

\* C16: normalize_columns gives a header whose trimmed, lower-cased text
\* is an alias of the canonical name c the label c, and every other
\* header its trimmed, lower-cased text; the records are left as they are,
\* so files that differ in the alias used normalize alike.
C16_HeadersResolved ==
    \A f \in {source_file, target_file} :
        LET n == normalize_columns(f)
        IN  /\ Len(n.columns) = Len(f.columns)
            /\ n.rows = f.rows
            /\ \A i \in 1..Len(f.columns) :
                  LET h == lower(strip(f.columns[i]))
                  IN  \E c \in {CanonicalOf(h)} :
                          IF c # {} THEN c = {n.columns[i]} ELSE n.columns[i] = h

\* A source with the headers 'tablename' and 'Remarks' and a target with
\* ' Table Name' have been compared: the source is found to have a
\* table_name and to lack a column_name.
C16_Witness ==
    /\ source_file.columns = TableOnlyHeader
    /\ target_file.columns = AliasHeader
    /\ normalize_columns(source_file).columns = <<"table_name", "remarks">>
    /\ normalize_columns(target_file).columns = <<"table_name", "column_name">>
    /\ compare_result # None
    /\ compare_result[1].error = "SOURCE file missing required column: column_name"

\* C16 as stated: a header that matches no alias is returned verbatim.
C16_UnmatchedHeaderVerbatim ==
    \A f \in {source_file, target_file} :
        LET n == normalize_columns(f)
        IN  /\ Len(n.columns) = Len(f.columns)
            /\ \A i \in 1..Len(f.columns) :
                  LET h == lower(strip(f.columns[i]))
                  IN  IF CanonicalOf(h) # {}
                      THEN CanonicalOf(h) = {n.columns[i]}
                      ELSE n.columns[i] = f.columns[i]

\* The column keys of a table in a normalized frame.
KeysOf(df, table) == {KeyOf(df, r)[2] : r \in {q \in Range(df.rows) : KeyOf(df, q)[1] = table}}

\* The spellings of a column key of a table in a normalized frame.
SpellingsOf(df, table, k) ==
    {strip(Cell(df, r, "column_name")) : r \in RecordsOf(df, <<table, k>>)}

\* C17: for a table found on both sides and every column key k of it, the
\* result has a row 'column missing in SOURCE' for k exactly when no
\* source record of the table has the key k, and the row then carries the
\* target's spelling in column_in_target and an empty column_in_source;
\* likewise 'column missing in TARGET' with the sides exchanged. A column
\* found on both sides is not reported missing.
C17_ColumnMissingIffKeyAbsent ==
    Compared =>
        LET df == compare_result[1].df[1]
            s == normalize_columns(source_file)
            t == normalize_columns(target_file)
        IN  \A X \in TablesOf(source_file) \cap TablesOf(target_file) :
                \A k \in KeysOf(s, X) \cup KeysOf(t, X) :
                    LET Reported(side, field) ==
                            {i \in 1..Len(df) :
                                /\ df[i].table_name = X
                                /\ df[i].comment = "column missing in " \o side
                                /\ lower(df[i][field]) = k}
                    IN  /\ (Reported("SOURCE", "column_in_target") # {})
                              <=> k \notin KeysOf(s, X)
                        /\ \A i \in Reported("SOURCE", "column_in_target") :
                              /\ df[i].column_in_source = ""
                              /\ df[i].column_in_target \in SpellingsOf(t, X, k)
                        /\ (Reported("TARGET", "column_in_source") # {})
                              <=> k \notin KeysOf(t, X)
                        /\ \A i \in Reported("TARGET", "column_in_source") :
                              /\ df[i].column_in_target = ""
                              /\ df[i].column_in_source \in SpellingsOf(s, X, k)

\* C18: when a column key of a table is found on both sides, with one
\* spelling on each and the two spellings different, the result has exactly
\* one row for it: 'column rename required' with the two spellings and
\* empty type and length fields; whatever the attribute values of the
\* column, none of their differences is reported.
C18_SpellingDifferenceYieldsRenameOnly ==
    Compared =>
        LET df == compare_result[1].df[1]
            s == normalize_columns(source_file)
            t == normalize_columns(target_file)
        IN  \A X \in TablesOf(source_file) \cap TablesOf(target_file) :
                \A k \in KeysOf(s, X) \cap KeysOf(t, X) :
                    \A a \in SpellingsOf(s, X, k), b \in SpellingsOf(t, X, k) :
                        (/\ SpellingsOf(s, X, k) = {a}
                         /\ SpellingsOf(t, X, k) = {b}
                         /\ a # b)
                            => \E i \in 1..Len(df) :
                                  /\ RowsOfColumn(df, X, k) = {i}
                                  /\ df[i] = [table_name |-> X, column_in_source |-> a,
                                              column_in_target |-> b,
                                              source_datatype |-> "", target_datatype |-> "",
                                              source_length |-> "", target_length |-> "",
                                              comment |-> "column rename required"]

\* A comparison has reported a rename for one column and differing
\* attributes for another column of the same table.
C18_Witness ==
    /\ Compared
    /\ \E i, j \in 1..Len(compare_result[1].df[1]) :
          /\ compare_result[1].df[1][i].comment = "column rename required"
          /\ compare_result[1].df[1][i].column_in_source
                # compare_result[1].df[1][i].column_in_target
          /\ compare_result[1].df[1][j].table_name = compare_result[1].df[1][i].table_name
          /\ Contains("differs", compare_result[1].df[1][j].comment)

\* The two attributes compared whether or not both uploads have them.
TypeAndLength == {"data_type", "max_length"}

\* C19: for uploads with unique keys and a column found on both sides with
\* the same spelling, the label of data_type (of max_length) is in the
\* comment of a row of the column exactly when the two values, stripped,
\* 'nan' and 'none' read as empty, and for data_type the case ignored,
\* differ and one of them is not empty. The attribute is one both uploads
\* have.
C19_TypeAndLengthDifferWhenNormalizedValuesDiffer ==
    (Compared /\ UniqueKeys(source_file) /\ UniqueKeys(target_file)) =>
        LET df == compare_result[1].df[1]
            s == normalize_columns(source_file)
            t == normalize_columns(target_file)
        IN  \A i \in 1..Len(s.rows), j \in 1..Len(t.rows) :
                (/\ KeyOf(s, s.rows[i]) = KeyOf(t, t.rows[j])
                 /\ Cell(s, s.rows[i], "column_name") = Cell(t, t.rows[j], "column_name"))
                    => \A col \in TypeAndLength :
                          (HasColumn(s, col) /\ HasColumn(t, col)) =>
                              LET sv == NormalizedValue(col, Cell(s, s.rows[i], col))
                                  tv == NormalizedValue(col, Cell(t, t.rows[j], col))
                                  key == KeyOf(s, s.rows[i])
                              IN  (\E n \in RowsOfColumn(df, key[1], key[2]) :
                                        Contains(AttributeLabel[col], df[n].comment))
                                      <=> (sv # tv /\ (sv # "" \/ tv # ""))

\* A comparison has returned no row for a column whose data types differ
\* by case and a trailing blank only and whose lengths are '' and 'nan'.
C19_Witness ==
    /\ Compared
    /\ LET s == normalize_columns(source_file)
           t == normalize_columns(target_file)
       IN  /\ \A col \in TypeAndLength : HasColumn(s, col) /\ HasColumn(t, col)
           /\ \E i \in 1..Len(s.rows), j \in 1..Len(t.rows) :
                /\ KeyOf(s, s.rows[i]) = KeyOf(t, t.rows[j])
                /\ Cell(s, s.rows[i], "column_name") = Cell(t, t.rows[j], "column_name")
                /\ Cell(s, s.rows[i], "data_type") = "INT"
                /\ Cell(t, t.rows[j], "data_type") = "int "
                /\ Cell(s, s.rows[i], "max_length") = ""
                /\ Cell(t, t.rows[j], "max_length") = "nan"
                /\ compare_result[1].df[1] = <<>>

RECURSIVE Joined(_)
\* The labels of a comment, separated by a comma and a blank.
Joined(labels) ==
    IF labels = <<>> THEN ""
    ELSE IF Tail(labels) = <<>> THEN Head(labels)
    ELSE Head(labels) \o ", " \o Joined(Tail(labels))

\* C20: for uploads with unique keys that both have data_type and
\* max_length, a column found on both sides with the same spelling has no
\* row when none of the attributes data_type, max_length, is_nullable,
\* precision, scale that both uploads have differs, and otherwise exactly
\* one row: its comment is the labels of the differing attributes in that
\* order, joined by ', ', and it carries the data type and the length of
\* both sides (stripped, 'nan' and 'none' as '') whether or not they differ.
C20_OneRowWithTheLabelsInOrder ==
    (Compared /\ UniqueKeys(source_file) /\ UniqueKeys(target_file)) =>
        LET df == compare_result[1].df[1]
            s == normalize_columns(source_file)
            t == normalize_columns(target_file)
            Label(col, sr, tr) ==
                LET sv == NormalizedValue(col, Cell(s, sr, col))
                    tv == NormalizedValue(col, Cell(t, tr, col))
                IN  IF HasColumn(s, col) /\ HasColumn(t, col)
                       /\ sv # tv /\ (sv # "" \/ tv # "")
                    THEN <<AttributeLabel[col]>> ELSE <<>>
            Carried(frame, r, col) == EmptyIfNan(strip(Cell(frame, r, col)))
        IN  (\A col \in TypeAndLength : HasColumn(s, col) /\ HasColumn(t, col)) =>
            \A i \in 1..Len(s.rows), j \in 1..Len(t.rows) :
                (/\ KeyOf(s, s.rows[i]) = KeyOf(t, t.rows[j])
                 /\ Cell(s, s.rows[i], "column_name") = Cell(t, t.rows[j], "column_name"))
                    => LET sr == s.rows[i]
                           tr == t.rows[j]
                           key == KeyOf(s, sr)
                           labels == Label("data_type", sr, tr) \o Label("max_length", sr, tr)
                                        \o Label("is_nullable", sr, tr)
                                        \o Label("precision", sr, tr) \o Label("scale", sr, tr)
                       IN  IF labels = <<>>
                           THEN RowsOfColumn(df, key[1], key[2]) = {}
                           ELSE \E n \in 1..Len(df) :
                                  /\ RowsOfColumn(df, key[1], key[2]) = {n}
                                  /\ df[n] =
                                       [table_name |-> key[1],
                                        column_in_source |-> Cell(s, sr, "column_name"),
                                        column_in_target |-> Cell(t, tr, "column_name"),
                                        source_datatype |-> Carried(s, sr, "data_type"),
                                        target_datatype |-> Carried(t, tr, "data_type"),
                                        source_length |-> Carried(s, sr, "max_length"),
                                        target_length |-> Carried(t, tr, "max_length"),
                                        comment |-> Joined(labels)]

\* A comparison of uploads with unique keys has returned a row for a
\* differing is_nullable alone, and the row carries the equal data types
\* and lengths of the two sides.
C20_Witness ==
    /\ Compared
    /\ UniqueKeys(source_file) /\ UniqueKeys(target_file)
    /\ \E n \in 1..Len(compare_result[1].df[1]) :
          LET row == compare_result[1].df[1][n]
          IN  /\ row.comment = "nullable differs"
              /\ row.column_in_source = row.column_in_target
              /\ row.source_datatype = "BIGINT" /\ row.target_datatype = "BIGINT"
              /\ row.source_length = "8" /\ row.target_length = "8"

\* C24, for normalize_columns: after the call the caller's frame has the
\* headers and the values it was given.
C24_NormalizeLeavesItsArgument ==
    (normalize_call # None /\ normalize_call.returned # None) =>
        /\ normalize_call.df.columns = normalize_call.given.columns
        /\ normalize_call.df.rows = normalize_call.given.rows

RECURSIVE LastRecords(_, _)
\* Of the first n records of a normalized frame, those after which the
\* frame has no record of the same key.
LastRecords(df, n) ==
    IF n = 0 THEN <<>>
    ELSE LastRecords(df, n - 1)
         \o (IF \E j \in (n + 1)..Len(df.rows) :
                    KeyOf(df, df.rows[j]) = KeyOf(df, df.rows[n])
             THEN <<>> ELSE <<df.rows[n]>>)

\* The upload with the last record of every key only.
LastRecordOnly(upload) ==
    LET df == normalize_columns(upload)
    IN  IF \A c \in Range(REQUIRED_COLUMNS) : HasColumn(df, c)
        THEN [columns |-> upload.columns, rows |-> LastRecords(df, Len(df.rows))]
        ELSE upload

\* C25: when a side has several records of a table whose column names are
\* equal but for the case, the name reported, the rename test and the
\* attribute values compared and carried are all those of the last of
\* these records: the result is the one of the uploads with the last
\* record of every key only.
C25_LastRecordWins ==
    Compared =>
        compare_result[1]
            = compare_schemas(LastRecordOnly(source_file), LastRecordOnly(target_file))

\* The upload without its schema column, if it has one.
WithoutSchema(upload) ==
    LET kept == SelectSeq([j \in 1..Len(upload.columns) |-> j],
                          LAMBDA j : normalize_columns(upload).columns[j] # "schema_name")
    IN  [columns |-> [k \in 1..Len(kept) |-> upload.columns[kept[k]]],
         rows |-> [i \in 1..Len(upload.rows) |->
                      [k \in 1..Len(kept) |-> upload.rows[i][kept[k]]]]]

Directions == {"source_to_target", "target_to_source"}

Opposite(direction) ==
    IF direction = "target_to_source" THEN "source_to_target" ELSE "target_to_source"

\* C5: a row 'table missing in SOURCE' or 'table missing in TARGET' yields
\* no descriptor: the list built holds no descriptor of the row's table, in
\* either direction, and is empty when the diff holds only such rows.
C5_TableMissingRowsYieldNoDescriptor ==
    build_call # None =>
        LET b == build_call[1]
        IN  \A i \in 1..Len(b.df) :
                b.df[i].comment \in {"table missing in SOURCE", "table missing in TARGET"}
                    => \A k \in 1..Len(b.changes) : b.changes[k].table # b.df[i].table_name

\* C6: in either direction a row 'column missing in SOURCE' yields exactly
\* one add_column descriptor, of the column name found in the target and
\* with target 'source', and a row 'column missing in TARGET' exactly one,
\* of the column name found in the source and with target 'target'.
C6_ColumnMissingRowsYieldOneAddColumn ==
    build_call # None =>
        LET b == build_call[1]
            Added(table, column) ==
                SelectSeq(b.changes, LAMBDA c : /\ c.change_type = "add_column"
                                                /\ c.table = table
                                                /\ c.column = column)
        IN  \A i \in 1..Len(b.df) :
                LET row == b.df[i]
                IN  /\ row.comment = "column missing in SOURCE" =>
                          /\ Len(Added(row.table_name, row.column_in_target)) = 1
                          /\ Added(row.table_name, row.column_in_target)[1].target = "source"
                    /\ row.comment = "column missing in TARGET" =>
                          /\ Len(Added(row.table_name, row.column_in_source)) = 1
                          /\ Added(row.table_name, row.column_in_source)[1].target = "target"

\* The row reports differing attributes of a column found on both sides.
IsDiffersRow(row) ==
    /\ Contains("differs", row.comment)
    /\ ~Contains("missing", row.comment)
    /\ ~Contains("rename", row.comment)

\* C7: a row whose comment lists k differing attributes yields exactly k
\* descriptors, one per listed attribute and in that order, each of type
\* '<attribute>_mismatch' for the row's column, with from and to read from
\* source_datatype and target_datatype: from the target's and to the
\* source's when the direction is target_to_source, the reverse otherwise.
C7_DiffersRowsYieldOneMismatchPerAttribute ==
    build_call # None =>
        LET b == build_call[1]
        IN  \A i \in 1..Len(b.df) :
                LET row == b.df[i]
                    listed == split(row.comment, ", ")
                    built == SelectSeq(b.changes,
                                 LAMBDA c : /\ c.change_type \notin {"add_column", "column_rename"}
                                            /\ c.table = row.table_name
                                            /\ c.column = row.column_in_source)
                IN  IsDiffersRow(row) =>
                        /\ Len(built) = Len(listed)
                        /\ \A k \in 1..Len(listed) :
                              /\ k <= Len(built)
                              /\ built[k].change_type
                                    = replace(listed[k], " differs", "") \o "_mismatch"
                              /\ built[k].from = IF b.direction = "target_to_source"
                                                 THEN row.target_datatype
                                                 ELSE row.source_datatype
                              /\ built[k].to = IF b.direction = "target_to_source"
                                               THEN row.source_datatype
                                               ELSE row.target_datatype

\* The rows 'column rename required' of a diff, in their order.
RenameRows(df) == SelectSeq(df, LAMBDA row : row.comment = "column rename required")

\* The column_rename descriptors of a list, in their order.
Renames(changes) == SelectSeq(changes, LAMBDA c : c.change_type = "column_rename")

\* C8: every row 'column rename required' yields one column_rename
\* descriptor of its table, from the target's spelling to the source's when
\* the direction is target_to_source and from the source's to the target's
\* otherwise; the list built for the opposite direction has from and to
\* exchanged.
C8_RenameFollowsDirection ==
    build_call # None =>
        LET b == build_call[1]
            rows == RenameRows(b.df)
            built == Renames(b.changes)
            opposite == Renames(build_schema_changes_from_df(b.df, Opposite(b.direction)))
        IN  /\ Len(built) = Len(rows)
            /\ Len(opposite) = Len(rows)
            /\ \A k \in 1..Len(rows) :
                  /\ k <= Len(built) /\ k <= Len(opposite)
                  /\ built[k].table = rows[k].table_name
                  /\ built[k].from = IF b.direction = "target_to_source"
                                     THEN rows[k].column_in_target
                                     ELSE rows[k].column_in_source
                  /\ built[k].to = IF b.direction = "target_to_source"
                                   THEN rows[k].column_in_source
                                   ELSE rows[k].column_in_target
                  /\ built[k].from = opposite[k].to
                  /\ built[k].to = opposite[k].from

\* The descriptors of a diff with a rename row have been built for the
\* direction target_to_source: from is the target's spelling.
C8_Witness ==
    /\ build_call # None
    /\ build_call[1].direction = "target_to_source"
    /\ RenameRows(build_call[1].df) # <<>>
    /\ \E k \in 1..Len(build_call[1].changes) :
          /\ build_call[1].changes[k].change_type = "column_rename"
          /\ build_call[1].changes[k].from = RenameRows(build_call[1].df)[1].column_in_target
          /\ build_call[1].changes[k].from # build_call[1].changes[k].to

\* ------------------------------------------------------------------------
\* Properties of the rendered script
\* ------------------------------------------------------------------------

\* A script has been rendered from the descriptors of build_call.
Rendered == response # None /\ response[1].status = 200 /\ build_call # None

\* The statement stands in the script, followed by the batch separator,
\* n times.
Occurrences(statement, sql) ==
    LET lines == split(sql, "\n")
    IN  Cardinality({n \in 1..(Len(lines) - 1) :
                        lines[n] = statement /\ lines[n + 1] = "GO"})

\* C9: every add_column descriptor built of a 'column missing' row is
\* rendered as exactly one statement 'ALTER TABLE <table> ADD <column>
\* <mapped_type>;' followed by GO, the type being the type mapper's for the
\* row of the diff.
C9_AddColumnIsRendered ==
    Rendered =>
        LET b == build_call[1]
            sql == response[1].body.sql
        IN  \A i \in 1..Len(b.df) :
                LET row == b.df[i]
                    existing == IF row.comment = "column missing in SOURCE"
                                THEN row.column_in_target ELSE row.column_in_source
                IN  row.comment \in {"column missing in SOURCE", "column missing in TARGET"} =>
                        \A k \in 1..Len(b.changes) :
                            LET c == b.changes[k]
                            IN  (/\ c.change_type = "add_column"
                                 /\ c.table = row.table_name
                                 /\ c.column = existing)
                                    => Occurrences(
                                           "ALTER TABLE " \o c.table \o " ADD " \o c.column
                                             \o " "
                                             \o normalize_mssql_datatype(row.source_datatype,
                                                                         row.source_length)
                                             \o ";", sql) = 1

\* C10: every mismatch descriptor built from a 'differs' row is rendered as
\* a statement 'ALTER TABLE <table> ALTER COLUMN <column> <mapped type of
\* to>;' followed by GO, so the script of a diff with a 'datatype differs'
\* row holds an ALTER COLUMN statement for the row's column.
C10_MismatchIsRendered ==
    Rendered =>
        LET b == build_call[1]
            sql == response[1].body.sql
        IN  \A k \in 1..Len(b.changes) :
                LET c == b.changes[k]
                IN  c.change_type \notin {"add_column", "column_rename"} =>
                        Occurrences("ALTER TABLE " \o c.table \o " ALTER COLUMN " \o c.column
                                      \o " " \o normalize_mssql_datatype(c.to, "") \o ";",
                                    sql) >= 1

\* C14: the script generate_mssql_sql returns is never the empty string:
\* for an empty descriptor list it is a single comment line, for any other
\* list a text that begins with the comment header of a table.
C14_ScriptIsNeverEmpty ==
    Rendered =>
        LET body == response[1].body
        IN  /\ body.sql # ""
            /\ body.changes = <<>> =>
                  /\ body.sql = "-- No schema changes required"
                  /\ Len(split(body.sql, "\n")) = 1
            /\ body.changes # <<>> =>
                  split(body.sql, "\n")[1] = "-- Changes for table " \o body.changes[1].table

\* A comparison without differences has been rendered.
C14_Witness ==
    /\ Rendered
    /\ latest_comparison_df = Some(<<>>)
    /\ response[1].body.changes = <<>>
    /\ response[1].body.sql = "-- No schema changes required"

\* generate_mssql_sql has returned for the list of the call.
RenderReturned == render_call # None /\ render_call.sql # None

\* The comment header of a table's block.
BlockHeader(table) == "-- Changes for table " \o table

RECURSIVE FirstOccurrences(_)
\* The elements of a sequence, each at the place of its first occurrence.
FirstOccurrences(seq) ==
    IF seq = <<>> THEN <<>>
    ELSE <<Head(seq)>>
         \o FirstOccurrences(SelectSeq(Tail(seq), LAMBDA x : x # Head(seq)))

\* C21: the script of a non-empty descriptor list is one block per table
\* of the list: the comment headers of the script are those of the tables
\* in the order of their first descriptor, each once, and the lines after a
\* table's header are the statements of the table's descriptors in the
\* order of the list, closed by an empty line.
C21_BlocksFollowFirstOccurrence ==
    (RenderReturned /\ render_call.changes # <<>>) =>
        LET cs == render_call.changes
            lines == split(render_call.sql[1], "\n")
            tables == FirstOccurrences([i \in 1..Len(cs) |-> cs[i].table])
            headers == SelectSeq(lines, LAMBDA l : Len(l) >= 2 /\ SubSeq(l, 1, 2) = "--")
        IN  /\ headers = [i \in 1..Len(tables) |-> BlockHeader(tables[i])]
            /\ \A t \in Range(tables) :
                  LET items == SelectSeq(cs, LAMBDA c : c.table = t)
                      expected == Concat([i \in 1..Len(items) |->
                                            IF Statement(t, items[i]) = <<>> THEN <<>>
                                            ELSE split(Statement(t, items[i])[1], "\n")])
                  IN  \E p \in 1..Len(lines) :
                          /\ lines[p] = BlockHeader(t)
                          /\ p + Len(expected) + 1 <= Len(lines)
                          /\ SubSeq(lines, p + 1, p + Len(expected)) = expected
                          /\ lines[p + Len(expected) + 1] = ""

\* A list with a descriptor of users, one of orders and another of users
\* has been rendered: the block of users comes first and holds both
\* statements of users.
C21_Witness ==
    /\ RenderReturned
    /\ Len(render_call.changes) = 3
    /\ render_call.changes[1].table = "users"
    /\ render_call.changes[2].table = "orders"
    /\ render_call.changes[3].table = "users"
    /\ render_call.changes[1] # render_call.changes[3]
    /\ split(render_call.sql[1], "\n")[1] = BlockHeader("users")
    /\ Cardinality({p \in 1..Len(split(render_call.sql[1], "\n")) :
                        split(render_call.sql[1], "\n")[p] = "GO"}) = 3

\* The rename statement of a table and two names.
RenameStatement(table, frm, to) ==
    "EXEC sp_rename '" \o table \o "." \o frm \o "', '" \o to \o "', 'COLUMN';"

\* C22: every column_rename descriptor of an answer of /sql-preview stands
\* in the script as exactly one statement EXEC sp_rename '<table>.<from>',
\* '<to>', 'COLUMN'; followed by GO, with the descriptor's table, from and
\* to; for a 'column rename required' row of the diff the statement renames
\* the source spelling to the target spelling under source_to_target and
\* the target spelling to the source spelling under target_to_source.
C22_RenameIsRendered ==
    Rendered =>
        LET b == build_call[1]
            body == response[1].body
        IN  /\ \A k \in 1..Len(body.changes) :
                  LET c == body.changes[k]
                  IN  c.change_type = "column_rename" =>
                          Occurrences(RenameStatement(c.table, c.from, c.to), body.sql) = 1
            /\ \A i \in 1..Len(b.df) :
                  LET row == b.df[i]
                  IN  row.comment = "column rename required" =>
                          Occurrences(
                              IF b.direction = "target_to_source"
                              THEN RenameStatement(row.table_name, row.column_in_target,
                                                   row.column_in_source)
                              ELSE RenameStatement(row.table_name, row.column_in_source,
                                                   row.column_in_target),
                              body.sql) = 1

\* The diff of 'Email' against 'email' has been rendered under
\* target_to_source: the script renames users.email to Email.
C22_Witness ==
    /\ Rendered
    /\ build_call[1].direction = "target_to_source"
    /\ \E i \in 1..Len(build_call[1].df) :
          /\ build_call[1].df[i].comment = "column rename required"
          /\ build_call[1].df[i].column_in_source = "Email"
          /\ build_call[1].df[i].column_in_target = "email"
    /\ Occurrences("EXEC sp_rename 'users.email', 'Email', 'COLUMN';",
                   response[1].body.sql) = 1

\* The synonyms of the fixed table that are not the type itself.
Synonyms ==
    [INTEGER |-> "INT", BOOL |-> "BIT", BOOLEAN |-> "BIT", TIMESTAMP |-> "DATETIME2",
     TEXT |-> "VARCHAR(MAX)"]

\* The families of types that take a length.
Parameterized == {"VARCHAR", "NVARCHAR", "DECIMAL", "NUMERIC"}

\* C23: the type mapper returns VARCHAR(255) for an absent or empty type;
\* for any other it resolves the upper-cased type to its synonym when it
\* has one and to itself otherwise, and returns the resolved type followed
\* by '(<length>)' when the resolved type is VARCHAR, NVARCHAR, DECIMAL or
\* NUMERIC and a non-empty length was given, and the resolved type alone in
\* every other case.
C23_TypeIsMapped ==
    (mapper_call # None /\ mapper_call.returned # None) =>
        LET dtype == mapper_call.dtype
            length == mapper_call.length
            returned == mapper_call.returned[1]
            given == length \notin {PyNone, ""}
        IN  IF dtype \in {PyNone, ""}
            THEN returned = "VARCHAR(255)"
            ELSE LET raw == upper(dtype)
                     base == IF raw \in DOMAIN Synonyms THEN Synonyms[raw] ELSE raw
                 IN  /\ (base \in Parameterized /\ given)
                            => returned = base \o "(" \o length \o ")"
                     /\ ~(base \in Parameterized /\ given) => returned = base

\* The mapper has returned NVARCHAR(50) for 'NVARCHAR' with the length
\* 50.
C23_Witness ==
    /\ mapper_call # None
    /\ mapper_call.dtype = "NVARCHAR"
    /\ mapper_call.length = "50"
    /\ mapper_call.returned = Some("NVARCHAR(50)")

\* Both a /compare and a /confirm-fix-options request have been answered 200.
BothCompleted == {"/compare", "/confirm-fix-options"} \subseteq completed

\* C29: /sql-preview answers 400 without a script whenever no /compare or no
\* /confirm-fix-options request has completed, it answers with a script
\* only after both have completed, in either order, and the changes_count
\* of the answer is the number of descriptors of its change list.
C29_PreviewNeedsBothRequests ==
    response # None =>
        /\ response[1].status \in {200, 400}
        /\ ~BothCompleted =>
              /\ response[1].status = 400
              /\ DOMAIN response[1] = {"status", "detail"}
        /\ response[1].status = 200 =>
              /\ BothCompleted
              /\ response[1].body.sql # ""
              /\ response[1].body.changes_count = Len(response[1].body.changes)

\* A script with changes is returned once both requests have completed.
C29_Witness ==
    /\ BothCompleted
    /\ response # None
    /\ response[1].status = 200
    /\ response[1].body.changes_count > 0
    /\ response[1].body.changes_count = Len(response[1].body.changes)

\* ------------------------------------------------------------------------
\* Properties of the password reset routes
\* ------------------------------------------------------------------------

\* C27: a password-reset token changes a password at most once: whatever
\* the interleaving of the /forgot-password and /reset-password requests,
\* at most one /reset-password request is answered 200 for a token.
C27_TokenResetsAtMostOnce ==
    \A i, j \in 1..Len(reset_log) :
        reset_log[i].token = reset_log[j].token => i = j

\* The calls of check_rate_limit for an address, as positions of rate_log.
CallsOf(email) == {i \in 1..Len(rate_log) : rate_log[i].email = email}

\* The calls for the address of call i that returned True and whose time
\* lies in the hour that ends at the time `at`: later than at - 1 hour, not
\* later than at.
AllowedInWindow(email, at) ==
    {j \in CallsOf(email) :
        /\ rate_log[j].allowed
        /\ rate_log[j].at > at - RESET_WINDOW_HOURS * TicksPerHour
        /\ rate_log[j].at <= at}

\* The times of the calls of rate_log that returned True for the address
\* and are later than the cutoff of its last call, in the order of the calls.
AttemptsInForce(email) ==
    LET last == rate_log[CHOOSE i \in CallsOf(email) : \A j \in CallsOf(email) : j <= i]
        inForce == SelectSeq(rate_log, LAMBDA c :
                       /\ c.email = email
                       /\ c.allowed
                       /\ c.at > last.at - RESET_WINDOW_HOURS * TicksPerHour)
    IN  [k \in 1..Len(inForce) |-> inForce[k].at]

\* C28: for every address and every sequence of check_rate_limit calls, at
\* most MAX_RESET_ATTEMPTS calls with a time in one window of
\* RESET_WINDOW_HOURS (the hour that ends at any time, its start excluded)
\* return True; a call returns True exactly when fewer than
\* MAX_RESET_ATTEMPTS earlier calls of the address that returned True are
\* left in the hour that ends at the call; and the attempts recorded are the
\* times of the calls that returned True and are not older than the window
\* of the last call, so a call that returns False records nothing.
C28_AtMostThreePerWindow ==
    /\ \A email \in Emails, at \in 0..MaxClock :
          Cardinality(AllowedInWindow(email, at)) <= MAX_RESET_ATTEMPTS
    /\ \A i \in 1..Len(rate_log) :
          rate_log[i].allowed <=>
             Cardinality({j \in AllowedInWindow(rate_log[i].email, rate_log[i].at) : j < i})
                < MAX_RESET_ATTEMPTS
    /\ DOMAIN password_reset_attempts = {rate_log[i].email : i \in 1..Len(rate_log)}
    /\ \A email \in DOMAIN password_reset_attempts :
          password_reset_attempts[email] = AttemptsInForce(email)

\* An address is refused after three attempts and allowed again later,
\* when the attempts have left the window.
C28_Witness ==
    \E i, k \in 1..Len(rate_log) :
        /\ i < k
        /\ rate_log[i].email = rate_log[k].email
        /\ ~rate_log[i].allowed
        /\ rate_log[k].allowed
        /\ Len(password_reset_attempts[rate_log[k].email]) < MAX_RESET_ATTEMPTS

\* ------------------------------------------------------------------------
\* Properties of the requests of two users
\* ------------------------------------------------------------------------

\* C15: whatever the interleaving of the requests of two users, an answer
\* of /sql-preview to a user is derived from that user's own last
\* comparison and own last fix options: it is the script and change list
\* of these, and the error 400 when the user has not yet sent both.
C15_PreviewUsesOwnRequests ==
    [][\A u \in Users :
          sessions'[u].response # sessions[u].response =>
              LET own == sessions[u]
              IN  IF own.compared = None \/ own.options = None
                  THEN sessions'[u].response[1].status = 400
                  ELSE sessions'[u].response
                         = Some([status |-> 200,
                                 body |-> PreviewBody(own.compared[1], own.options[1],
                                              build_schema_changes_from_df(
                                                  own.compared[1],
                                                  own.options[1].direction))])]_vars

=============================================================================
